---------------------------- MODULE Spec2Model ----------------------------
(***************************************************************************)
(* Model of the metrics layer of the Ladder marketing dashboard            *)
(* (src/enanced_MD.py): the connection provider, the TTL-cached query      *)
(* functions and the SQL aggregations they run.                            *)
(*                                                                         *)
(* Dates are day numbers: day 0 is Sunday 2025-08-31, so day 1 is the      *)
(* first day of a month and the first day of an ISO week.                  *)
(* A data frame is a sequence of rows (records); the empty frame is << >>. *)
(* An SQL average is kept exact as [sum, n]; n = 0 stands for NULL.        *)
(***************************************************************************)
EXTENDS Integers, Sequences, FiniteSets, TLC

VARIABLES
    db,      \* the database: [users: set of rows, events: set of rows]
    now,     \* wall clock, in seconds
    dbUp,    \* whether the database accepts connections
    cache,   \* st.cache_data's store: set of [fn, args, value, stored_at]
    last,    \* what the latest call of a query function did
    session, \* the calls (function, arguments) the dashboard session issues
    conns,   \* connections opened by query calls and not closed since
    page     \* the script run in progress: its position and its variables

vars == <<db, now, dbUp, cache, last, session, conns, page>>

---------------------------------------------------------------------------
(* Bounds of the model *)

MaxDate == 1
MaxEvents == 2
MaxWrites == 1
MaxTicks == 2
MaxLookback == 1
MaxComboUsers == 3
MaxConns == 2
MaxCount == 10

UserIds == {1, 2}
Dates == 0..MaxDate
Features == {"spending", "savings", "investment", "lady_ai"}

---------------------------------------------------------------------------
(* The database.  users(id, created_at, restricted); the five activity     *)
(* sources are kept as the rows their UNION yields: (user_id,              *)
(* activity_date, feature), already filtered on status and provider.       *)
(* ffp and reviews are the row counts of financial_simulator_v2 and        *)
(* financial_simulator_reviews; row i of a table is [id |-> i].            *)

UserRows == [id : UserIds, signup_date : Dates, restricted : BOOLEAN]
EventRows == [user_id : UserIds, activity_date : Dates, feature : Features]

EmptyDb == [users |-> {}, events |-> {}, ffp |-> 0, reviews |-> 0]

Between(x, lo, hi) == lo <= x /\ x <= hi

Min(S) == CHOOSE x \in S : \A y \in S : x <= y

DateTruncWeek(d) == d - ((d + 6) % 7)

DateTruncMonth(d) ==
    IF d >= 92 THEN 92
    ELSE IF d >= 62 THEN 62
    ELSE IF d >= 31 THEN 31
    ELSE IF d >= 1 THEN 1
    ELSE IF d >= -30 THEN -30
    ELSE -61

\* AVG over the groups of a GROUP BY: counts maps each group to its count
RECURSIVE SumFn(_)
SumFn(f) ==
    IF DOMAIN f = {} THEN 0
    ELSE LET g == CHOOSE x \in DOMAIN f : TRUE
         IN  f[g] + SumFn([x \in DOMAIN f \ {g} |-> f[x]])

Avg(counts) == [sum |-> SumFn(counts), n |-> Cardinality(DOMAIN counts)]

AllFeatureUsage(d) == d.events

UsersFiltered(d) ==
    {[user_id |-> r.id, signup_date |-> r.signup_date] :
        r \in {x \in d.users : ~x.restricted}}

InPeriod(d, s, e) == {r \in AllFeatureUsage(d) : Between(r.activity_date, s, e)}

UsersOf(rows) == {r.user_id : r \in rows}

FeaturesOf(rows, u) == {r.feature : r \in {x \in rows : x.user_id = u}}

DaysOf(rows, u) == {r.activity_date : r \in {x \in rows : x.user_id = u}}

---------------------------------------------------------------------------
(* fetch_comprehensive_metrics: the SQL of lines 246-409 *)

FirstEverActivity(d) ==
    {[user_id |-> u,
      first_ever_activity_date |-> Min(DaysOf(AllFeatureUsage(d), u))] :
        u \in UsersOf(AllFeatureUsage(d))}

\* mutant: COUNT(activity_date) in place of COUNT(DISTINCT activity_date)
UserActivitySummaryCountRows(d, s, e) ==
    {[user_id |-> u,
      active_days_in_period |->
          Cardinality({r \in InPeriod(d, s, e) : r.user_id = u})] :
        u \in UsersOf(InPeriod(d, s, e))}

UserActivitySummary(d, s, e) ==
    {[user_id |-> u,
      active_days_in_period |-> Cardinality(DaysOf(InPeriod(d, s, e), u))] :
        u \in UsersOf(InPeriod(d, s, e))}

UsageType(active_days) ==
    IF active_days = 1 THEN "one_time_usage"
    ELSE IF active_days >= 2 THEN "recurring"
    ELSE "inactive"

IsFirstTimeUser(first_ever, s, e) == Between(first_ever, s, e)

UserClassification(d, s, e) ==
    {[user_id |-> uas.user_id,
      signup_date |-> uf.signup_date,
      first_ever_activity_date |-> fea.first_ever_activity_date,
      active_days_in_period |-> uas.active_days_in_period,
      usage_type |-> UsageType(uas.active_days_in_period),
      is_first_time_user |->
          IsFirstTimeUser(fea.first_ever_activity_date, s, e)] :
        <<uas, uf, fea>> \in
            {t \in UserActivitySummary(d, s, e) \X UsersFiltered(d)
                     \X FirstEverActivity(d) :
                t[2].user_id = t[1].user_id /\ t[3].user_id = t[1].user_id}}

\* mutant: every day of the range is averaged, days without activity as 0
DauMetricsZeroFilled(d, s, e) ==
    LET rows == InPeriod(d, s, e)
    IN  Avg([day \in s..e |->
                Cardinality(UsersOf({r \in rows : r.activity_date = day}))])

DauMetrics(d, s, e) ==
    LET rows == InPeriod(d, s, e)
    IN  Avg([day \in {r.activity_date : r \in rows} |->
                Cardinality(UsersOf({r \in rows : r.activity_date = day}))])

WauMetrics(d, s, e) ==
    LET rows == InPeriod(d, s, e)
    IN  Avg([w \in {DateTruncWeek(r.activity_date) : r \in rows} |->
                Cardinality(UsersOf(
                    {r \in rows : DateTruncWeek(r.activity_date) = w}))])

MauMetrics(d, s, e) ==
    LET rows == InPeriod(d, s, e)
    IN  Avg([m \in {DateTruncMonth(r.activity_date) : r \in rows} |->
                Cardinality(UsersOf(
                    {r \in rows : DateTruncMonth(r.activity_date) = m}))])

FeatureUsers(d, s, e, f) ==
    Cardinality(UsersOf({r \in InPeriod(d, s, e) : r.feature = f}))

SingleFeature(d, s, e) ==
    {u \in UsersOf(InPeriod(d, s, e)) :
        Cardinality(FeaturesOf(InPeriod(d, s, e), u)) = 1}

MultiFeature(d, s, e) ==
    {u \in UsersOf(InPeriod(d, s, e)) :
        Cardinality(FeaturesOf(InPeriod(d, s, e), u)) > 1}

OnlyFeatureUsers(d, s, e, f) ==
    Cardinality({u \in SingleFeature(d, s, e) :
                    FeaturesOf(InPeriod(d, s, e), u) = {f}})

ComprehensiveQuery(d, s, e) ==
    LET uc == UserClassification(d, s, e)
    IN  <<[total_signups |->
              Cardinality({r \in d.users :
                  ~r.restricted /\ Between(r.signup_date, s, e)}),
           total_active_users |-> Cardinality({r.user_id : r \in uc}),
           one_time_usage_users |->
              Cardinality({r \in uc : r.usage_type = "one_time_usage"}),
           recurring_users |->
              Cardinality({r \in uc : r.usage_type = "recurring"}),
           first_time_users |->
              Cardinality({r \in uc : r.is_first_time_user}),
           avg_dau |-> DauMetrics(d, s, e),
           avg_wau |-> WauMetrics(d, s, e),
           avg_mau |-> MauMetrics(d, s, e),
           spending_users |-> FeatureUsers(d, s, e, "spending"),
           savings_users |-> FeatureUsers(d, s, e, "savings"),
           investment_users |-> FeatureUsers(d, s, e, "investment"),
           lady_ai_users |-> FeatureUsers(d, s, e, "lady_ai"),
           single_feature_users |-> Cardinality(SingleFeature(d, s, e)),
           multiple_feature_users |-> Cardinality(MultiFeature(d, s, e)),
           only_spending_users |-> OnlyFeatureUsers(d, s, e, "spending"),
           only_savings_users |-> OnlyFeatureUsers(d, s, e, "savings"),
           only_investment_users |-> OnlyFeatureUsers(d, s, e, "investment"),
           only_lady_ai_users |-> OnlyFeatureUsers(d, s, e, "lady_ai")]>>


---------------------------------------------------------------------------
(* fetch_feature_combinations: the SQL of lines 425-469 *)

\* ORDER BY feature: alphabetical rank of the four tags
FeatureRank(f) ==
    CASE f = "investment" -> 1
      [] f = "lady_ai" -> 2
      [] f = "savings" -> 3
      [] f = "spending" -> 4

\* STRING_AGG(DISTINCT feature, ' + ' ORDER BY feature), kept as the
\* sequence of tags that the separator joins
RECURSIVE StringAgg(_)
StringAgg(fs) ==
    IF fs = {} THEN << >>
    ELSE LET f == CHOOSE x \in fs : \A y \in fs : FeatureRank(x) <= FeatureRank(y)
         IN  <<f>> \o StringAgg(fs \ {f})

\* mutant: user_features without HAVING COUNT(DISTINCT feature) > 1
UserFeaturesAnyCount(d, s, e) ==
    {[user_id |-> u,
      feature_combination |-> StringAgg(FeaturesOf(InPeriod(d, s, e), u))] :
        u \in UsersOf(InPeriod(d, s, e))}

\* mutant: user_features reads the activity of all time, not of [s, e]
UserFeaturesAllTime(d, s, e) ==
    {[user_id |-> u,
      feature_combination |-> StringAgg(FeaturesOf(AllFeatureUsage(d), u))] :
        u \in {x \in UsersOf(AllFeatureUsage(d)) :
                  Cardinality(FeaturesOf(AllFeatureUsage(d), x)) > 1}}

UserFeatures(d, s, e) ==
    {[user_id |-> u,
      feature_combination |-> StringAgg(FeaturesOf(InPeriod(d, s, e), u))] :
        u \in MultiFeature(d, s, e)}

\* ROUND(n * 100.0 / total, 2), in hundredths of a percent
RoundPct(n, total) == (((n * 100000) \div total) + 5) \div 10

CombinationRows(d, s, e) ==
    LET uf == UserFeatures(d, s, e)
    IN  {[feature_combination |-> c,
          user_count |-> Cardinality({r \in uf : r.feature_combination = c}),
          percentage |->
              RoundPct(Cardinality({r \in uf : r.feature_combination = c}),
                       Cardinality(uf))] :
            c \in {r.feature_combination : r \in uf}}

\* every ordering of a set of rows, as frames
RECURSIVE Orderings(_)
Orderings(rows) ==
    IF rows = {} THEN {<< >>}
    ELSE UNION {{<<r>> \o t : t \in Orderings(rows \ {r})} : r \in rows}

\* ORDER BY user_count DESC: rows with equal counts come in any order
FeatureCombinationsQuery(d, s, e) ==
    {fr \in Orderings(CombinationRows(d, s, e)) :
        \A i \in 1..Len(fr), j \in 1..Len(fr) :
            i < j => fr[i].user_count >= fr[j].user_count}

---------------------------------------------------------------------------
(* The activity sub-query of the feature-filtered functions (lines        *)
(* 483-507, 588-635, 687-734): rows of one feature, or of all, in [s, e]  *)

ActivityQuery(d, s, e, f) ==
    {[user_id |-> r.user_id, activity_date |-> r.activity_date] :
        r \in {x \in InPeriod(d, s, e) : f = "None" \/ x.feature = f}}

\* a set of integers in ascending order (ORDER BY on a date column)
RECURSIVE Ascending(_)
Ascending(S) ==
    IF S = {} THEN << >>
    ELSE <<Min(S)>> \o Ascending(S \ {Min(S)})

---------------------------------------------------------------------------
(* fetch_feature_specific_metrics: the SQL of lines 514-571 *)

FeatureSpecificQuery(d, s, e, f) ==
    LET fu == ActivityQuery(d, s, e, f)
        uf == {r \in UsersFiltered(d) : Between(r.signup_date, s, e)}
        first_time == {r \in uf :
                          /\ r.user_id \in UsersOf(fu)
                          /\ Min(DaysOf(fu, r.user_id)) >= r.signup_date}
        recurring == {u \in UsersOf(fu) : Cardinality(DaysOf(fu, u)) > 1}
    IN  <<[total_active_users |-> Cardinality(UsersOf(fu)),
           first_time_users |-> Cardinality(first_time),
           recurring_users |-> Cardinality(recurring),
           avg_dau |-> Avg([day \in {r.activity_date : r \in fu} |->
               Cardinality(UsersOf({r \in fu : r.activity_date = day}))]),
           avg_wau |-> Avg([w \in {DateTruncWeek(r.activity_date) : r \in fu} |->
               Cardinality(UsersOf(
                   {r \in fu : DateTruncWeek(r.activity_date) = w}))]),
           avg_mau |-> Avg([m \in {DateTruncMonth(r.activity_date) : r \in fu} |->
               Cardinality(UsersOf(
                   {r \in fu : DateTruncMonth(r.activity_date) = m}))])]>>

---------------------------------------------------------------------------
(* fetch_retention_metrics: the SQL of lines 637-667.  A rate is          *)
(* [num, den]; den = 0 is the NULL that NULLIF(COUNT, 0) yields.          *)

\* mutant: the signups CTE without its date filter
RetentionSignupsAnyDate(d, s, e) == UsersFiltered(d)

RetentionSignups(d, s, e) ==
    {r \in UsersFiltered(d) : Between(r.signup_date, s, e)}

RetentionJoined(d, s, e, f) ==
    {[user_id |-> sg.user_id, signup_date |-> sg.signup_date,
      activity_date |-> a.activity_date] :
        <<sg, a>> \in {t \in RetentionSignups(d, s, e) \X ActivityQuery(d, s, e, f) :
                          t[1].user_id = t[2].user_id}}

\* mutant: each window keeps only its last day
RetainedOnLastDay(d, s, e, f, lo, hi) ==
    Cardinality(UsersOf({r \in RetentionJoined(d, s, e, f) :
        r.activity_date = r.signup_date + hi}))

Retained(d, s, e, f, lo, hi) ==
    Cardinality(UsersOf({r \in RetentionJoined(d, s, e, f) :
        Between(r.activity_date, r.signup_date + lo, r.signup_date + hi)}))

RetentionQuery(d, s, e, f) ==
    LET total == Cardinality(UsersOf(RetentionSignups(d, s, e)))
    IN  <<[total_signups |-> total,
           day1_retention |-> [num |-> Retained(d, s, e, f, 1, 1), den |-> total],
           week1_retention |-> [num |-> Retained(d, s, e, f, 1, 7), den |-> total],
           month1_retention |->
               [num |-> Retained(d, s, e, f, 1, 30), den |-> total]]>>

---------------------------------------------------------------------------
(* fetch_trend_data: the three queries of lines 736-755 *)

TrendDataQuery(d, s, e, f) ==
    LET fu == ActivityQuery(d, s, e, f)
        days == Ascending({r.activity_date : r \in fu})
        weeks == Ascending({DateTruncWeek(r.activity_date) : r \in fu})
        months == Ascending({DateTruncMonth(r.activity_date) : r \in fu})
    IN  <<[i \in 1..Len(days) |->
              [activity_date |-> days[i],
               dau |-> Cardinality(UsersOf(
                   {r \in fu : r.activity_date = days[i]}))]],
          [i \in 1..Len(weeks) |->
              [week |-> weeks[i],
               wau |-> Cardinality(UsersOf(
                   {r \in fu : DateTruncWeek(r.activity_date) = weeks[i]}))]],
          [i \in 1..Len(months) |->
              [month |-> months[i],
               mau |-> Cardinality(UsersOf(
                   {r \in fu : DateTruncMonth(r.activity_date) = months[i]}))]]>>

---------------------------------------------------------------------------
(* fetch_overview_trend: the SQL of lines 801-958 *)

DateTrunc(agg, x) ==
    IF agg = "month" THEN DateTruncMonth(x)
    ELSE IF agg = "week" THEN DateTruncWeek(x)
    ELSE x

NextMonthStart(m) ==
    CASE m = -61 -> -30
      [] m = -30 -> 1
      [] m = 1 -> 31
      [] m = 31 -> 62
      [] m = 62 -> 92
      [] OTHER -> m + 31

\* date + interval '1 month': same day of the next month, clamped to its end
AddMonth(x) ==
    LET m == DateTruncMonth(x)
        n == NextMonthStart(m)
        last_day == NextMonthStart(n) - 1
    IN  IF n + (x - m) <= last_day THEN n + (x - m) ELSE last_day

AddInterval(agg, x) ==
    IF agg = "month" THEN AddMonth(x)
    ELSE IF agg = "week" THEN x + 7
    ELSE x + 1

\* generate_series(cur, e, interval)
RECURSIVE GenerateSeries(_, _, _)
GenerateSeries(cur, e, agg) ==
    IF cur > e THEN << >>
    ELSE <<cur>> \o GenerateSeries(AddInterval(agg, cur), e, agg)

OverviewTrendRow(d, s, e, agg, dt) ==
    LET signed == {r \in d.users : ~r.restricted}
        usage == InPeriod(d, s, e)
        usage_abs == {r \in AllFeatureUsage(d) : r.activity_date <= e}
        at(rows) == {r \in rows : DateTrunc(agg, r.activity_date) = dt}
    IN  [activity_date |-> dt,
         signups |-> Cardinality({r \in signed :
             Between(r.signup_date, s, e) /\ DateTrunc(agg, r.signup_date) = dt}),
         active_users |-> Cardinality(UsersOf(at(usage))),
         lady_users |->
             Cardinality(UsersOf({r \in at(usage) : r.feature = "lady_ai"})),
         spending_users |->
             Cardinality(UsersOf({r \in at(usage) : r.feature = "spending"})),
         savings_users |->
             Cardinality(UsersOf({r \in at(usage) : r.feature = "savings"})),
         investment_users |->
             Cardinality(UsersOf({r \in at(usage) : r.feature = "investment"})),
         absolute_signups |->
             IF \E r \in signed :
                    r.signup_date <= e /\ DateTrunc(agg, r.signup_date) = dt
             THEN Cardinality({r \in signed :
                      r.signup_date <= e /\ DateTrunc(agg, r.signup_date) <= dt})
             ELSE 0,
         absolute_active_users |->
             IF at(usage_abs) # {}
             THEN Cardinality(UsersOf({r \in usage_abs :
                      DateTrunc(agg, r.activity_date) <= dt}))
             ELSE 0]

OverviewTrendQuery(d, s, e, agg) ==
    LET days == GenerateSeries(s, e, agg)
    IN  [i \in 1..Len(days) |-> OverviewTrendRow(d, s, e, agg, days[i])]

---------------------------------------------------------------------------
(* fetch_churn_count: the SQL of lines 988-1025 *)

\* mutant: users_ever restricted to the analysis window
ChurnQueryWindowOnly(d, s, e) ==
    LET users_ever == UsersOf(InPeriod(d, s, e))
        users_in_period == UsersOf(InPeriod(d, s, e))
    IN  Cardinality(users_ever \ users_in_period)

ChurnQuery(d, s, e) ==
    LET users_ever == UsersOf({r \in AllFeatureUsage(d) : r.activity_date <= e})
        users_in_period == UsersOf(InPeriod(d, s, e))
    IN  Cardinality(users_ever \ users_in_period)

---------------------------------------------------------------------------
(* fetch_dormant_users_analysis: lines 1043-1195.  The historical period  *)
(* is passed as BETWEEN start_date - dormant_period_days AND start_date.  *)

HistoricalStart(s, n) == s - n

\* mutant: historical users are not checked against the current period
DormantWithoutCurrent(rows, s, e, n) ==
    UsersOf({r \in rows : Between(r.activity_date, HistoricalStart(s, n), s)})

Dormant(rows, s, e, n) ==
    UsersOf({r \in rows : Between(r.activity_date, HistoricalStart(s, n), s)})
        \ UsersOf({r \in rows : Between(r.activity_date, s, e)})

OfFeature(d, f) == {r \in AllFeatureUsage(d) : r.feature = f}

DormantAnalysisQuery(d, s, e, n) ==
    <<[overall_dormant_users |->
           Cardinality(Dormant(AllFeatureUsage(d), s, e, n)),
       spending_dormant_users |->
           Cardinality(Dormant(OfFeature(d, "spending"), s, e, n)),
       savings_dormant_users |->
           Cardinality(Dormant(OfFeature(d, "savings"), s, e, n)),
       investment_dormant_users |->
           Cardinality(Dormant(OfFeature(d, "investment"), s, e, n)),
       lady_ai_dormant_users |->
           Cardinality(Dormant(OfFeature(d, "lady_ai"), s, e, n)),
       total_historical_users |->
           Cardinality(UsersOf({r \in AllFeatureUsage(d) :
               Between(r.activity_date, HistoricalStart(s, n), s)})),
       total_current_users |-> Cardinality(UsersOf(InPeriod(d, s, e)))]>>

---------------------------------------------------------------------------
(* fetch_dormant_users_trend: the SQL of lines 1209-1265 *)

DailyDormant(d, s, e, n, day) ==
    UsersOf({r \in AllFeatureUsage(d) :
                Between(r.activity_date, HistoricalStart(s, n), s)})
        \ UsersOf({r \in InPeriod(d, s, e) : r.activity_date = day})

DormantTrendQuery(d, s, e, n) ==
    LET days == Ascending({day \in {r.activity_date : r \in InPeriod(d, s, e)} :
                              DailyDormant(d, s, e, n, day) # {}})
    IN  [i \in 1..Len(days) |->
            [activity_date |-> days[i],
             dormant_count |-> Cardinality(DailyDormant(d, s, e, n, days[i]))]]

---------------------------------------------------------------------------
(* fetch_absolute_metrics: the SQL of lines 1459-1483, returned as a dict *)

\* mutant: activity on the end date itself is left out
AbsoluteQueryBeforeEnd(d, e) ==
    [absolute_total_signups |->
         Cardinality({r \in d.users : r.signup_date <= e /\ ~r.restricted}),
     absolute_total_active_users |->
         Cardinality(UsersOf({r \in AllFeatureUsage(d) : r.activity_date < e}))]

AbsoluteQuery(d, e) ==
    [absolute_total_signups |->
         Cardinality({r \in d.users : r.signup_date <= e /\ ~r.restricted}),
     absolute_total_active_users |->
         Cardinality(UsersOf({r \in AllFeatureUsage(d) : r.activity_date <= e}))]

---------------------------------------------------------------------------
(* load_ffp_data: SELECT * of the two simulator tables, lines 73-75 *)

TableFrame(n) == [i \in 1..n |-> [id |-> i]]

FfpQuery(d) == <<TableFrame(d.ffp), TableFrame(d.reviews)>>

---------------------------------------------------------------------------
(* generate_insights (lines 1320-1391).  An insight is kept as its title   *)
(* and the percentage its text shows, in tenths of a percent.              *)

\* "c in df.columns" for a frame that is not empty
HasColumn(df, c) == c \in DOMAIN df[1]

\* f"{n / d * 100:.1f}", in tenths of a percent
ShownPct(n, d) == (2000 * n + d) \div (2 * d)

InsightCard(title, shown) == [title |-> title, shown |-> shown]

\* mutant: the low-activation alert also fires at exactly 30 percent
ActivationInsightsAtThreshold(metrics_df) ==
    IF metrics_df = << >> THEN << >>
    ELSE LET total_signups ==
                 IF HasColumn(metrics_df, "total_signups")
                 THEN metrics_df[1].total_signups ELSE 0
             total_active ==
                 IF HasColumn(metrics_df, "total_active_users")
                 THEN metrics_df[1].total_active_users ELSE 0
         IN  IF total_signups > 0
             THEN IF total_active * 100 <= 30 * total_signups
                  THEN <<InsightCard("Low Activation Rate Alert",
                                     ShownPct(total_active, total_signups))>>
                  ELSE IF total_active * 100 > 70 * total_signups
                  THEN <<InsightCard("Excellent Activation Rate",
                                     ShownPct(total_active, total_signups))>>
                  ELSE << >>
             ELSE << >>

\* the block under "if not metrics_df.empty"
ActivationInsights(metrics_df) ==
    IF metrics_df = << >> THEN << >>
    ELSE LET total_signups ==
                 IF HasColumn(metrics_df, "total_signups")
                 THEN metrics_df[1].total_signups ELSE 0
             total_active ==
                 IF HasColumn(metrics_df, "total_active_users")
                 THEN metrics_df[1].total_active_users ELSE 0
         IN  IF total_signups > 0
             THEN IF total_active * 100 < 30 * total_signups
                  THEN <<InsightCard("Low Activation Rate Alert",
                                     ShownPct(total_active, total_signups))>>
                  ELSE IF total_active * 100 > 70 * total_signups
                  THEN <<InsightCard("Excellent Activation Rate",
                                     ShownPct(total_active, total_signups))>>
                  ELSE << >>
             ELSE << >>

\* "x * 100 if x else 0" on a rate [num, den]: NULL (None) and 0.0 are falsy
RatePercent(rate) ==
    IF rate.den # 0 /\ rate.num # 0
    THEN [num |-> rate.num * 100, den |-> rate.den]
    ELSE [num |-> 0, den |-> 1]

\* the block under "if not retention_df.empty and ..."
RetentionInsights(retention_df) ==
    IF retention_df # << >> /\ HasColumn(retention_df, "day1_retention")
    THEN LET day1_retention == RatePercent(retention_df[1].day1_retention)
             week1_retention == RatePercent(retention_df[1].week1_retention)
         IN  (IF day1_retention.num < 20 * day1_retention.den
              THEN <<InsightCard("Day 1 Retention Needs Attention",
                                 ShownPct(day1_retention.num,
                                          100 * day1_retention.den))>>
              ELSE << >>)
             \o (IF week1_retention.num > 50 * week1_retention.den
                 THEN <<InsightCard("Strong Week 1 Retention",
                                    ShownPct(week1_retention.num,
                                             100 * week1_retention.den))>>
                 ELSE << >>)
    ELSE << >>

GenerateInsights(metrics_df, retention_df) ==
    ActivationInsights(metrics_df) \o RetentionInsights(retention_df)

---------------------------------------------------------------------------
(* The ratios the script derives from the fetched snapshots.  A ratio is   *)
(* [error, hundredths]: the value in hundredths (of a percent, or of the   *)
(* ratio), error set when the division was asked to divide by zero.        *)

Zero == [error |-> FALSE, hundredths |-> 0]

\* a / b * k in hundredths
Divide(a, b, k) ==
    IF b = 0 THEN [error |-> TRUE, hundredths |-> 0]
    ELSE [error |-> FALSE, hundredths |-> (100 * k * a) \div b]

\* mutant: the conversion rate without its "if total_signups > 0"
ConversionRateUnguarded(comprehensive_df) ==
    Divide(comprehensive_df[1].first_time_users,
           comprehensive_df[1].total_signups, 100)

\* conversion_rate (line 1629)
ConversionRate(comprehensive_df) ==
    LET total_signups == comprehensive_df[1].total_signups
        first_time_users == comprehensive_df[1].first_time_users
    IN  IF total_signups > 0 THEN Divide(first_time_users, total_signups, 100)
        ELSE Zero

\* feature_adoption (line 1652): min(..., 100.0)
FeatureAdoption(comprehensive_df) ==
    LET total_active == comprehensive_df[1].total_active_users
        first_time_users == comprehensive_df[1].first_time_users
        q == Divide(first_time_users, total_active, 100)
    IN  IF total_active > 0
        THEN [error |-> q.error,
              hundredths |-> IF q.hundredths < 10000 THEN q.hundredths
                             ELSE 10000]
        ELSE Zero

\* comprehensive_df['<feature>_users'][0]
UsersColumn(comprehensive_df, f) ==
    CASE f = "spending" -> comprehensive_df[1].spending_users
      [] f = "lady_ai" -> comprehensive_df[1].lady_ai_users
      [] f = "savings" -> comprehensive_df[1].savings_users
      [] f = "investment" -> comprehensive_df[1].investment_users

\* spending_pct, lady_ai_pct, savings_pct, investment_pct (lines 1677-1680)
PenetrationPct(comprehensive_df, f) ==
    LET total_active == comprehensive_df[1].total_active_users
    IN  IF total_active > 0
        THEN Divide(UsersColumn(comprehensive_df, f), total_active, 100)
        ELSE Zero

\* "x if not pd.isna(x) else 0" on an average [sum, n]; n = 0 is NULL
NotNa(avg) == IF avg.n = 0 THEN [sum |-> 0, n |-> 1] ELSE avg

\* stickiness_ratio = avg_dau / avg_mau if avg_mau > 0 else 0 (line 2255)
StickinessRatio(feature_metrics) ==
    LET avg_dau == NotNa(feature_metrics[1].avg_dau)
        avg_mau == NotNa(feature_metrics[1].avg_mau)
    IN  IF avg_mau.sum > 0
        THEN Divide(avg_dau.sum * avg_mau.n, avg_dau.n * avg_mau.sum, 1)
        ELSE Zero

\* dormant_percentage (line 2633)
DormantPercentage(dormant_analysis) ==
    LET overall_dormant == dormant_analysis[1].overall_dormant_users
        total_historical == dormant_analysis[1].total_historical_users
    IN  IF total_historical > 0
        THEN Divide(overall_dormant, total_historical, 100)
        ELSE Zero

\* reactivation_rate (line 2652)
ReactivationRate(dormant_analysis) ==
    LET overall_dormant == dormant_analysis[1].overall_dormant_users
        total_historical == dormant_analysis[1].total_historical_users
        total_current == dormant_analysis[1].total_current_users
    IN  IF total_historical > 0
        THEN Divide(total_current - overall_dormant, total_historical, 100)
        ELSE Zero

\* dormant_analysis[f'{feature_key}_dormant_users'][0]
DormantColumn(dormant_analysis, f) ==
    CASE f = "spending" -> dormant_analysis[1].spending_dormant_users
      [] f = "savings" -> dormant_analysis[1].savings_dormant_users
      [] f = "investment" -> dormant_analysis[1].investment_dormant_users
      [] f = "lady_ai" -> dormant_analysis[1].lady_ai_dormant_users

\* dormant_pct of one feature (line 2698)
DormantPct(dormant_analysis, f) ==
    LET overall_dormant == dormant_analysis[1].overall_dormant_users
    IN  IF overall_dormant > 0
        THEN Divide(DormantColumn(dormant_analysis, f), overall_dormant, 100)
        ELSE Zero

---------------------------------------------------------------------------
(* The query functions: arguments, defaults and bodies *)

TTL == 300

CachedFetches ==
    {"fetch_comprehensive_metrics", "fetch_feature_combinations",
     "fetch_feature_specific_metrics", "fetch_retention_metrics",
     "fetch_trend_data", "fetch_overview_trend", "fetch_churn_count",
     "fetch_dormant_users_analysis", "fetch_dormant_users_trend",
     "fetch_absolute_metrics"}

Fns == CachedFetches \cup {"load_ffp_data"}

\* the arguments of a call; a parameter the function does not take is "-" or 0
Args(s, e, f, a, n) ==
    [start_date |-> s, end_date |-> e, feature |-> f, aggregation |-> a,
     dormant_period_days |-> n]

RangeArgs(s, e) == Args(s, e, "-", "-", 0)

EmptyFrame == << >>

\* what a query function returns when get_database_connection gave None
\* (load_ffp_data: what its except branch returns)
Default(fn) ==
    CASE fn = "fetch_trend_data" -> <<EmptyFrame, EmptyFrame, EmptyFrame>>
      [] fn = "fetch_churn_count" -> 0
      [] fn = "fetch_absolute_metrics" -> << >>
      [] fn = "load_ffp_data" -> <<EmptyFrame, EmptyFrame>>
      [] OTHER -> EmptyFrame

\* the values the SQL of a query function can return on database d
QueryResults(fn, a, d) ==
    CASE fn = "fetch_comprehensive_metrics" ->
            {ComprehensiveQuery(d, a.start_date, a.end_date)}
      [] fn = "fetch_feature_combinations" ->
            FeatureCombinationsQuery(d, a.start_date, a.end_date)
      [] fn = "fetch_feature_specific_metrics" ->
            {FeatureSpecificQuery(d, a.start_date, a.end_date, a.feature)}
      [] fn = "fetch_retention_metrics" ->
            {RetentionQuery(d, a.start_date, a.end_date, a.feature)}
      [] fn = "fetch_trend_data" ->
            {TrendDataQuery(d, a.start_date, a.end_date, a.feature)}
      [] fn = "fetch_overview_trend" ->
            {OverviewTrendQuery(d, a.start_date, a.end_date, a.aggregation)}
      [] fn = "fetch_churn_count" ->
            {ChurnQuery(d, a.start_date, a.end_date)}
      [] fn = "fetch_dormant_users_analysis" ->
            {DormantAnalysisQuery(d, a.start_date, a.end_date,
                                  a.dormant_period_days)}
      [] fn = "fetch_dormant_users_trend" ->
            {DormantTrendQuery(d, a.start_date, a.end_date,
                               a.dormant_period_days)}
      [] fn = "fetch_absolute_metrics" -> {AbsoluteQuery(d, a.end_date)}
      [] fn = "load_ffp_data" -> {FfpQuery(d)}

\* mutant: the except branch re-raises instead of returning None
GetDatabaseConnectionReraises(fault) ==
    [conn |-> "None", raised |-> fault = "probe", reported |-> fault = "probe"]

\* get_database_connection: a connection, or None once st.error has
\* reported the failure; fault = "probe" is create_engine(...).connect()
\* failing
GetDatabaseConnection(fault) ==
    IF fault = "probe"
    THEN [conn |-> "None", raised |-> FALSE, reported |-> TRUE]
    ELSE [conn |-> "conn", raised |-> FALSE, reported |-> FALSE]

Outcome(o, v, q, r) ==
    [outcome |-> o, value |-> v, queried |-> q, reported |-> r]

\* the body of a fetch_* function: the probe, then a second
\* engine.connect() and pd.read_sql_query, neither inside a try
FetchBody(fn, fault, v) ==
    LET c == GetDatabaseConnection(fault)
    IN  IF c.raised THEN Outcome("raised", EmptyFrame, FALSE, c.reported)
        ELSE IF c.conn = "None"
        THEN Outcome("returned", Default(fn), FALSE, c.reported)
        ELSE IF fault = "connect"
        THEN Outcome("raised", EmptyFrame, FALSE, FALSE)
        ELSE IF fault = "sql"
        THEN Outcome("raised", EmptyFrame, TRUE, FALSE)
        ELSE Outcome("returned", v, TRUE, FALSE)

\* the body of load_ffp_data: everything inside one try / except
LoadFfpBody(fault, v) ==
    IF fault = "connect"
    THEN Outcome("returned", Default("load_ffp_data"), FALSE, TRUE)
    ELSE IF fault = "sql"
    THEN Outcome("returned", Default("load_ffp_data"), TRUE, TRUE)
    ELSE Outcome("returned", v, TRUE, FALSE)

Body(fn, fault, v) ==
    IF fn = "load_ffp_data" THEN LoadFfpBody(fault, v) ELSE FetchBody(fn, fault, v)

\* the connections a body has opened and not closed when it returns or
\* raises: the connection get_database_connection hands back is only
\* tested against None; the second one is closed by its with block, and
\* load_ffp_data hands pandas an engine, not a connection
LeftOpen(fn, fault) ==
    IF fn = "load_ffp_data" THEN 0
    ELSE IF GetDatabaseConnection(fault).conn = "None" THEN 0
    ELSE 1

\* the failures a call can meet: with the database down the first connect
\* fails; with it up, it can still go away before the second connect, or
\* the statement can fail
Faults(fn, up) ==
    IF ~up THEN (IF fn = "load_ffp_data" THEN {"connect"} ELSE {"probe"})
    ELSE {"none", "connect", "sql"}

---------------------------------------------------------------------------
(* st.cache_data: entries keyed by the function and all its arguments,    *)
(* fresh while younger than the ttl; load_ffp_data has no ttl             *)

NoEntry ==
    [found |-> FALSE, fn |-> "none", args |-> RangeArgs(0, 0),
     value |-> EmptyFrame, stored_at |-> 0, failed |-> FALSE]

\* no script run in progress
NoPage == [pc |-> "idle"]

NoCall ==
    [fn |-> "none", args |-> RangeArgs(0, 0), outcome |-> "none",
     value |-> EmptyFrame, hit |-> FALSE, queried |-> FALSE,
     reported |-> FALSE, fault |-> "none", at |-> 0, up |-> TRUE,
     entry |-> NoEntry]

\* mutant: the feature argument left out of the key
KeyOfWithoutFeature(fn, a) ==
    <<fn, a.start_date, a.end_date, a.aggregation, a.dormant_period_days>>

KeyOf(fn, a) == <<fn, a>>

Matching(c, fn, a) == {x \in c : KeyOf(x.fn, x.args) = KeyOf(fn, a)}

HasTtl(fn) == fn \in CachedFetches

\* mutant: entries expire one second early
FreshOneSecondShort(x, t) == ~HasTtl(x.fn) \/ t - x.stored_at < TTL - 1

\* mutant: entries still served at exactly the ttl
FreshAtTtl(x, t) == ~HasTtl(x.fn) \/ t - x.stored_at <= TTL

Fresh(x, t) == ~HasTtl(x.fn) \/ t - x.stored_at < TTL

Lookup(c, fn, a, t) == {x \in Matching(c, fn, a) : Fresh(x, t)}

\* failed is history: the value is the default of a failed connection
Store(c, fn, a, v, t, failed) ==
    (c \ Matching(c, fn, a))
        \cup {[fn |-> fn, args |-> a, value |-> v, stored_at |-> t,
                failed |-> failed]}

\* the entry a call finds under its key, fresh or not
Found(c, fn, a) ==
    IF Matching(c, fn, a) = {} THEN NoEntry
    ELSE LET x == CHOOSE y \in Matching(c, fn, a) : TRUE
         IN  [found |-> TRUE, fn |-> x.fn, args |-> x.args, value |-> x.value,
              stored_at |-> x.stored_at, failed |-> x.failed]

\* what a call that ran the function body did
Ran(fn, a, fault, t, up, found, r) ==
    [fn |-> fn, args |-> a, outcome |-> r.outcome, value |-> r.value,
     hit |-> FALSE, queried |-> r.queried, reported |-> r.reported,
     fault |-> fault, at |-> t, up |-> up, entry |-> found]

\* what a call served from the cache did
Served(fn, a, t, up, found) ==
    [fn |-> fn, args |-> a, outcome |-> "returned", value |-> found.value,
     hit |-> TRUE, queried |-> FALSE, reported |-> FALSE, fault |-> "none",
     at |-> t, up |-> up, entry |-> found]

---------------------------------------------------------------------------
(* Specification SpecComprehensive: fetch_comprehensive_metrics as a pure   *)
(* function of the database.  Init draws a database; the action runs the   *)
(* function body once on a date range.                                     *)

RECURSIVE UpTo(_, _)
UpTo(D, k) ==
    IF k = 0 THEN {{}}
    ELSE LET S == UpTo(D, k - 1)
         IN  S \cup {x \cup {r} : x \in S, r \in D}

\* per user: -2 a restricted row, -1 no row, d >= 0 a row signed up on day d
UsersTable(choice) ==
    {[id |-> u,
      signup_date |-> IF choice[u] < 0 THEN 0 ELSE choice[u],
      restricted |-> choice[u] = -2] : u \in {x \in UserIds : choice[x] # -1}}

Databases ==
    {[users |-> UsersTable(c), events |-> ev, ffp |-> 0, reviews |-> 0] :
        c \in [UserIds -> -2..MaxDate], ev \in UpTo(EventRows, MaxEvents)}

InitComprehensive ==
    /\ db \in Databases
    /\ now = 0
    /\ dbUp = TRUE
    /\ cache = {}
    /\ last = NoCall
    /\ session = {}
    /\ conns = 0
    /\ page = NoPage

RunComprehensive ==
    /\ last = NoCall
    /\ \E s \in Dates, e \in Dates :
        \E v \in QueryResults("fetch_comprehensive_metrics", RangeArgs(s, e), db) :
            /\ last' = Ran("fetch_comprehensive_metrics", RangeArgs(s, e), "none",
                           now, dbUp, NoEntry,
                           Body("fetch_comprehensive_metrics", "none", v))
            /\ conns' = conns + LeftOpen("fetch_comprehensive_metrics", "none")
            /\ UNCHANGED <<db, now, dbUp, cache, session, page>>

NextComprehensive == RunComprehensive

SpecComprehensive == InitComprehensive /\ [][NextComprehensive]_vars

---------------------------------------------------------------------------
(* The other query functions as pure functions of the database: each      *)
(* specification draws a database and runs one function body once.        *)

RunQuery(fn, s, e, f, agg, n) ==
    /\ last = NoCall
    /\ \E v \in QueryResults(fn, Args(s, e, f, agg, n), db) :
           last' = Ran(fn, Args(s, e, f, agg, n), "none", now, dbUp, NoEntry,
                       Body(fn, "none", v))
    /\ conns' = conns + LeftOpen(fn, "none")
    /\ UNCHANGED <<db, now, dbUp, cache, session, page>>

FeatureFilters == {"None"} \cup Features

RunRetention ==
    \E s \in Dates, e \in Dates, f \in FeatureFilters :
        RunQuery("fetch_retention_metrics", s, e, f, "-", 0)

NextRetention == RunRetention

SpecRetention == InitComprehensive /\ [][NextRetention]_vars

RunTrendData ==
    \E s \in Dates, e \in Dates, f \in FeatureFilters :
        RunQuery("fetch_trend_data", s, e, f, "-", 0)

NextTrendData == RunTrendData

SpecTrendData == InitComprehensive /\ [][NextTrendData]_vars

Aggregations == {"day", "week", "month"}

RunOverviewTrend ==
    \E s \in Dates, e \in Dates, agg \in Aggregations :
        RunQuery("fetch_overview_trend", s, e, "-", agg, 0)

NextOverviewTrend == RunOverviewTrend

SpecOverviewTrend == InitComprehensive /\ [][NextOverviewTrend]_vars

LookbackDays == 0..MaxLookback

RunDormantAnalysis ==
    \E s \in Dates, e \in Dates, n \in LookbackDays :
        RunQuery("fetch_dormant_users_analysis", s, e, "-", "-", n)

NextDormantAnalysis == RunDormantAnalysis

SpecDormantAnalysis == InitComprehensive /\ [][NextDormantAnalysis]_vars

\* fetch_retention_metrics on databases whose activity falls on the days
\* around the ends of the three retention windows of a day-0 signup
WindowDates == {1, 2, 7, 8, 30, 31}

WindowEventRows ==
    [user_id : UserIds, activity_date : WindowDates,
     feature : {"spending", "savings"}]

WindowDatabases ==
    {[users |-> UsersTable(c), events |-> ev, ffp |-> 0, reviews |-> 0] :
        c \in [UserIds -> -2..MaxDate], ev \in UpTo(WindowEventRows, MaxEvents)}

InitRetentionWindows ==
    /\ db \in WindowDatabases
    /\ now = 0
    /\ dbUp = TRUE
    /\ cache = {}
    /\ last = NoCall
    /\ session = {}
    /\ conns = 0
    /\ page = NoPage

RunRetentionWindows ==
    \E s \in Dates, e \in {MaxDate, 31}, f \in FeatureFilters :
        RunQuery("fetch_retention_metrics", s, e, f, "-", 0)

NextRetentionWindows == RunRetentionWindows

SpecRetentionWindows == InitRetentionWindows /\ [][NextRetentionWindows]_vars

\* generate_insights on snapshots drawn from what the queries can return:
\* the comprehensive row (the two columns the function reads), a
\* feature-specific row (no total_signups column), a retention row, or
\* the empty frame of a failed connection
MetricsFrames ==
    {<< >>}
        \cup {<<[total_signups |-> a, total_active_users |-> b]>> :
                 a \in 0..MaxCount, b \in 0..MaxCount}
        \cup {<<[total_active_users |-> b]>> : b \in {0, MaxCount}}

RetentionFrames ==
    {<< >>} \cup
    UNION {{<<[total_signups |-> n,
               day1_retention |-> [num |-> x[1], den |-> n],
               week1_retention |-> [num |-> x[2], den |-> n],
               month1_retention |-> [num |-> x[3], den |-> n]]>> :
               x \in {y \in (0..n) \X (0..n) \X (0..n) :
                          y[1] <= y[2] /\ y[2] <= y[3]}} :
           n \in {0, MaxCount}}

InitInsights ==
    /\ db = EmptyDb
    /\ now = 0
    /\ dbUp = TRUE
    /\ cache = {}
    /\ last = NoCall
    /\ session = {}
    /\ conns = 0
    /\ page \in {[pc |-> "insights", metrics_df |-> m, retention_df |-> r,
                   insights |-> << >>, again |-> << >>] :
                      m \in MetricsFrames, r \in RetentionFrames}

\* insights = generate_insights(metrics_df, retention_df)
CallGenerateInsights ==
    /\ page.pc = "insights"
    /\ page' = [page EXCEPT
                   !.pc = "shown",
                   !.insights =
                       GenerateInsights(page.metrics_df, page.retention_df)]
    /\ UNCHANGED <<db, now, dbUp, cache, last, session, conns>>

\* a later call with the same snapshots
CallGenerateInsightsAgain ==
    /\ page.pc = "shown"
    /\ page' = [page EXCEPT
                   !.pc = "shown_again",
                   !.again =
                       GenerateInsights(page.metrics_df, page.retention_df)]
    /\ UNCHANGED <<db, now, dbUp, cache, last, session, conns>>

NextInsights ==
    \/ CallGenerateInsights
    \/ CallGenerateInsightsAgain

SpecInsights == InitInsights /\ [][NextInsights]_vars

\* The script's calls as it makes them, one after the other, on a database
\* that nobody writes in between.  page holds the script's variables; the
\* arguments of a call are the sidebar values start_date, end_date and
\* dormant_period_days.
ScriptArgs(fn) ==
    CASE fn = "fetch_absolute_metrics" -> RangeArgs(0, page.end_date)
      [] fn \in {"fetch_dormant_users_analysis", "fetch_dormant_users_trend"} ->
            Args(page.start_date, page.end_date, "-", "-",
                 page.dormant_period_days)
      [] fn = "fetch_feature_specific_metrics" ->
            Args(page.start_date, page.end_date, page.feature, "-", 0)
      [] fn = "fetch_retention_metrics" ->
            Args(page.start_date, page.end_date, "None", "-", 0)
      [] OTHER -> RangeArgs(page.start_date, page.end_date)

\* var = fn(...): the body runs and the script keeps what it returns
FetchInto(at, fn, var, then) ==
    /\ page.pc = at
    /\ \E v \in QueryResults(fn, ScriptArgs(fn), db) :
           LET r == Body(fn, "none", v)
           IN  /\ last' = Ran(fn, ScriptArgs(fn), "none", now, dbUp, NoEntry, r)
               /\ page' = [page EXCEPT !.pc = then, ![var] = r.value]
    /\ conns' = conns + LeftOpen(fn, "none")
    /\ UNCHANGED <<db, now, dbUp, cache, session>>

\* absolute metrics, dormancy analysis and churn of one date range
InitPartition ==
    /\ db \in Databases
    /\ now = 0
    /\ dbUp = TRUE
    /\ cache = {}
    /\ last = NoCall
    /\ session = {}
    /\ conns = 0
    /\ page \in {[pc |-> "absolute", start_date |-> s, end_date |-> e,
                   dormant_period_days |-> n, churn_count |-> 0,
                   dormant_analysis |-> << >>, absolute_metrics |-> << >>] :
                      s \in Dates, e \in Dates, n \in LookbackDays}

PartitionAbsolute ==
    FetchInto("absolute", "fetch_absolute_metrics", "absolute_metrics",
              "dormant")

PartitionDormant ==
    FetchInto("dormant", "fetch_dormant_users_analysis", "dormant_analysis",
              "churn")

PartitionChurn ==
    FetchInto("churn", "fetch_churn_count", "churn_count", "done")

NextPartition ==
    \/ PartitionAbsolute
    \/ PartitionDormant
    \/ PartitionChurn

SpecPartition == InitPartition /\ [][NextPartition]_vars

\* The ratios of one script run: each fetch is followed by the lines that
\* derive ratios from what it returned.
FeatureTabs == <<"spending", "lady_ai", "savings", "investment">>

NoRatio == [error |-> FALSE, hundredths |-> -1]

TabIndex(f) == CHOOSE k \in DOMAIN FeatureTabs : FeatureTabs[k] = f

\* the script from the assignment of what the call at position "at"
\* returned up to the next call
Assigned(at, v) ==
    CASE at = "comprehensive" ->
            \* lines 1493 and 1610-1680
            [page EXCEPT
                !.pc = "retention",
                !.comprehensive_df = v,
                !.conversion_rate = ConversionRate(v),
                !.feature_adoption = FeatureAdoption(v),
                !.penetration = [f \in Features |-> PenetrationPct(v, f)]]
      [] at = "retention" ->
            \* lines 2206-2207
            [page EXCEPT
                !.pc = "feature",
                !.retention_df = v,
                !.insights = GenerateInsights(page.comprehensive_df, v)]
      [] at = "feature" ->
            \* lines 2235-2255, once per feature tab
            LET i == TabIndex(page.feature)
            IN  [page EXCEPT
                    !.pc = IF i < Len(FeatureTabs) THEN "feature" ELSE "dormant",
                    !.feature_metrics = v,
                    !.stickiness_ratio = StickinessRatio(v),
                    !.feature = FeatureTabs[IF i < Len(FeatureTabs)
                                            THEN i + 1 ELSE i]]
      [] at = "dormant" ->
            \* lines 2622-2698
            [page EXCEPT
                !.pc = "done",
                !.dormant_analysis = v,
                !.dormant_percentage = DormantPercentage(v),
                !.reactivation_rate = ReactivationRate(v),
                !.dormant_pct = [f \in Features |-> DormantPct(v, f)]]

FetchAnd(at, fn) ==
    /\ page.pc = at
    /\ \E v \in QueryResults(fn, ScriptArgs(fn), db) :
           LET r == Body(fn, "none", v)
           IN  /\ last' = Ran(fn, ScriptArgs(fn), "none", now, dbUp, NoEntry, r)
               /\ page' = Assigned(at, r.value)
    /\ conns' = conns + LeftOpen(fn, "none")
    /\ UNCHANGED <<db, now, dbUp, cache, session>>

InitRatios ==
    /\ db \in Databases
    /\ now = 0
    /\ dbUp = TRUE
    /\ cache = {}
    /\ last = NoCall
    /\ session = {}
    /\ conns = 0
    /\ page \in {[pc |-> "comprehensive", start_date |-> s, end_date |-> e,
                   dormant_period_days |-> n, feature |-> FeatureTabs[1],
                   comprehensive_df |-> << >>, retention_df |-> << >>,
                   feature_metrics |-> << >>, dormant_analysis |-> << >>,
                   conversion_rate |-> NoRatio, feature_adoption |-> NoRatio,
                   penetration |-> [f \in Features |-> NoRatio],
                   insights |-> << >>, stickiness_ratio |-> NoRatio,
                   dormant_percentage |-> NoRatio,
                   reactivation_rate |-> NoRatio,
                   dormant_pct |-> [f \in Features |-> NoRatio]] :
                      s \in Dates, e \in Dates, n \in 1..MaxLookback}

RatiosComprehensive ==
    FetchAnd("comprehensive", "fetch_comprehensive_metrics")

RatiosInsights == FetchAnd("retention", "fetch_retention_metrics")

RatiosFeature == FetchAnd("feature", "fetch_feature_specific_metrics")

RatiosDormant == FetchAnd("dormant", "fetch_dormant_users_analysis")

NextRatios ==
    \/ RatiosComprehensive
    \/ RatiosInsights
    \/ RatiosFeature
    \/ RatiosDormant

SpecRatios == InitRatios /\ [][NextRatios]_vars

\* fetch_churn_count with the database up or down at the time of the call
InitChurn ==
    /\ db \in Databases
    /\ now = 0
    /\ dbUp \in BOOLEAN
    /\ cache = {}
    /\ last = NoCall
    /\ session = {}
    /\ conns = 0
    /\ page = NoPage

RunChurn ==
    /\ last = NoCall
    /\ \E s \in Dates, e \in Dates, fault \in Faults("fetch_churn_count", dbUp) :
        \E v \in QueryResults("fetch_churn_count", RangeArgs(s, e), db) :
            /\ last' = Ran("fetch_churn_count", RangeArgs(s, e), fault, now, dbUp,
                           NoEntry, Body("fetch_churn_count", fault, v))
            /\ dbUp' = IF fault = "connect" THEN FALSE ELSE dbUp
            /\ conns' = conns + LeftOpen("fetch_churn_count", fault)
            /\ UNCHANGED <<db, now, cache, session, page>>

NextChurn == RunChurn

SpecChurn == InitChurn /\ [][NextChurn]_vars

\* fetch_feature_combinations: databases in which each of a few users has
\* touched a set of features on day 0, and, when again is set, once more
\* on the last day
ComboUsers == 1..MaxComboUsers

ComboEvents(touched, again) ==
    {[user_id |-> u, activity_date |-> day, feature |-> f] :
        u \in ComboUsers, day \in {0} \cup {x \in {MaxDate} : again},
        f \in Features} \cap
    {r \in [user_id : ComboUsers, activity_date : Dates, feature : Features] :
        r.feature \in touched[r.user_id]}

ComboDatabases ==
    {[users |-> {}, events |-> ComboEvents(t, again), ffp |-> 0, reviews |-> 0] :
        t \in [ComboUsers -> SUBSET Features], again \in BOOLEAN}

InitCombinations ==
    /\ db \in ComboDatabases
    /\ now = 0
    /\ dbUp = TRUE
    /\ cache = {}
    /\ last = NoCall
    /\ session = {}
    /\ conns = 0
    /\ page = NoPage

RunCombinations ==
    \E s \in Dates, e \in Dates :
        RunQuery("fetch_feature_combinations", s, e, "-", "-", 0)

NextCombinations == RunCombinations

SpecCombinations == InitCombinations /\ [][NextCombinations]_vars

\* comprehensive metrics and feature combinations of one date range
InitCombinationTotals ==
    /\ db \in ComboDatabases
    /\ now = 0
    /\ dbUp = TRUE
    /\ cache = {}
    /\ last = NoCall
    /\ session = {}
    /\ conns = 0
    /\ page \in {[pc |-> "comprehensive", start_date |-> s, end_date |-> e,
                   comprehensive_df |-> << >>,
                   feature_combinations_df |-> << >>] :
                      s \in Dates, e \in Dates}

TotalsComprehensive ==
    FetchInto("comprehensive", "fetch_comprehensive_metrics",
              "comprehensive_df", "combinations")

TotalsCombinations ==
    FetchInto("combinations", "fetch_feature_combinations",
              "feature_combinations_df", "done")

NextCombinationTotals ==
    \/ TotalsComprehensive
    \/ TotalsCombinations

SpecCombinationTotals == InitCombinationTotals /\ [][NextCombinationTotals]_vars

---------------------------------------------------------------------------
(* Specification Spec: a dashboard session that issues one call any       *)
(* number of times while time passes, rows are inserted and the database  *)
(* goes away and comes back.  Specification SpecKeys: a session that      *)
(* issues two calls differing in the function or in one argument.         *)

Call(fn, a) == [fn |-> fn, args |-> a]

\* the argument tuples tried per function: the first is the base call
ArgVariants(fn) ==
    CASE fn \in {"fetch_comprehensive_metrics", "fetch_feature_combinations",
                 "fetch_churn_count"} ->
            <<RangeArgs(0, 1), RangeArgs(1, 1), RangeArgs(0, 0)>>
      [] fn = "fetch_feature_specific_metrics" ->
            <<Args(0, 1, "spending", "-", 0), Args(1, 1, "spending", "-", 0),
              Args(0, 0, "spending", "-", 0), Args(0, 1, "savings", "-", 0)>>
      [] fn \in {"fetch_retention_metrics", "fetch_trend_data"} ->
            <<Args(0, 1, "None", "-", 0), Args(1, 1, "None", "-", 0),
              Args(0, 0, "None", "-", 0), Args(0, 1, "spending", "-", 0)>>
      [] fn = "fetch_overview_trend" ->
            <<Args(0, 1, "-", "day", 0), Args(1, 1, "-", "day", 0),
              Args(0, 0, "-", "day", 0), Args(0, 1, "-", "week", 0),
              Args(0, 1, "-", "month", 0)>>
      [] fn \in {"fetch_dormant_users_analysis", "fetch_dormant_users_trend"} ->
            <<Args(1, 1, "-", "-", 1), Args(0, 1, "-", "-", 1),
              Args(1, 0, "-", "-", 1), Args(1, 1, "-", "-", 0)>>
      [] fn = "fetch_absolute_metrics" -> <<RangeArgs(0, 1), RangeArgs(0, 0)>>
      [] fn = "load_ffp_data" -> <<RangeArgs(0, 0)>>

\* one call: each function with its base arguments
Sessions == {{Call(fn, ArgVariants(fn)[1])} : fn \in Fns}

NextFn(fn) ==
    CASE fn = "fetch_comprehensive_metrics" -> "fetch_feature_combinations"
      [] fn = "fetch_feature_combinations" -> "fetch_churn_count"
      [] fn = "fetch_churn_count" -> "fetch_absolute_metrics"
      [] fn = "fetch_absolute_metrics" -> "load_ffp_data"
      [] fn = "load_ffp_data" -> "fetch_comprehensive_metrics"
      [] fn = "fetch_feature_specific_metrics" -> "fetch_overview_trend"
      [] fn = "fetch_overview_trend" -> "fetch_dormant_users_analysis"
      [] fn = "fetch_dormant_users_analysis" -> "fetch_dormant_users_trend"
      [] fn = "fetch_dormant_users_trend" -> "fetch_retention_metrics"
      [] fn = "fetch_retention_metrics" -> "fetch_trend_data"
      [] fn = "fetch_trend_data" -> "fetch_retention_metrics"

\* two calls: the same function with one argument changed, or two
\* functions with their base arguments
SessionPairs ==
    UNION {{{Call(fn, ArgVariants(fn)[1]), Call(fn, ArgVariants(fn)[i])} :
                i \in DOMAIN ArgVariants(fn) \ {1}} : fn \in Fns} \cup
    {{Call(fn, ArgVariants(fn)[1]), Call(NextFn(fn), ArgVariants(NextFn(fn))[1])} :
        fn \in Fns}

SeedDb ==
    [users |-> {[id |-> 1, signup_date |-> 0, restricted |-> FALSE]},
     events |-> {[user_id |-> 1, activity_date |-> 0, feature |-> "spending"]},
     ffp |-> 0, reviews |-> 0]

DbSize(d) == Cardinality(d.users) + Cardinality(d.events) + d.ffp + d.reviews

Init ==
    /\ db = SeedDb
    /\ now = 0
    /\ dbUp = TRUE
    /\ cache = {}
    /\ last = NoCall
    /\ session \in Sessions
    /\ conns = 0
    /\ page = NoPage

\* a call that finds a fresh entry under its key
CallHit ==
    \E c \in session :
        /\ Lookup(cache, c.fn, c.args, now) # {}
        /\ last' = Served(c.fn, c.args, now, dbUp,
                         Found(cache, c.fn, c.args))
        /\ UNCHANGED <<db, now, dbUp, cache, session, conns, page>>

\* a call that finds no fresh entry: the body runs, and what it returns
\* is stored; an exception stores nothing
CallMiss ==
    \E c \in session :
        /\ Lookup(cache, c.fn, c.args, now) = {}
        /\ conns < MaxConns
        /\ \E fault \in Faults(c.fn, dbUp), v \in QueryResults(c.fn, c.args, db) :
            LET r == Body(c.fn, fault, v)
            IN  /\ last' = Ran(c.fn, c.args, fault, now, dbUp,
                               Found(cache, c.fn, c.args), r)
                /\ cache' = IF r.outcome = "returned"
                             THEN Store(cache, c.fn, c.args, r.value, now,
                                        fault # "none")
                             ELSE cache
                /\ dbUp' = IF fault = "connect" THEN FALSE ELSE dbUp
                /\ conns' = conns + LeftOpen(c.fn, fault)
                /\ UNCHANGED <<db, now, session, page>>

Tick ==
    \E dt \in {TTL - 1, TTL} :
        /\ now + dt <= MaxTicks * TTL
        /\ now' = now + dt
        /\ UNCHANGED <<db, dbUp, cache, last, session, conns, page>>

InsertUser ==
    \E r \in UserRows :
        /\ DbSize(db) < DbSize(SeedDb) + MaxWrites
        /\ r.id \notin {x.id : x \in db.users}
        /\ db' = [db EXCEPT !.users = @ \cup {r}]
        /\ UNCHANGED <<now, dbUp, cache, last, session, conns, page>>

InsertEvent ==
    \E r \in EventRows :
        /\ DbSize(db) < DbSize(SeedDb) + MaxWrites
        /\ r \notin db.events
        /\ db' = [db EXCEPT !.events = @ \cup {r}]
        /\ UNCHANGED <<now, dbUp, cache, last, session, conns, page>>

InsertFfp ==
    /\ DbSize(db) < DbSize(SeedDb) + MaxWrites
    /\ \/ db' = [db EXCEPT !.ffp = @ + 1]
       \/ db' = [db EXCEPT !.reviews = @ + 1]
    /\ UNCHANGED <<now, dbUp, cache, last, session, conns, page>>

DbDown ==
    /\ dbUp
    /\ dbUp' = FALSE
    /\ UNCHANGED <<db, now, cache, last, session, conns, page>>

DbRestore ==
    /\ ~dbUp
    /\ dbUp' = TRUE
    /\ UNCHANGED <<db, now, cache, last, session, conns, page>>

\* the interpreter's collector finalises the connections that no variable
\* refers to any more; when it runs is not fixed by the script
Collect ==
    /\ conns > 0
    /\ conns' = 0
    /\ UNCHANGED <<db, now, dbUp, cache, last, session, page>>

Next ==
    \/ CallHit
    \/ CallMiss
    \/ Tick
    \/ InsertUser
    \/ InsertEvent
    \/ InsertFfp
    \/ DbDown
    \/ DbRestore
    \/ Collect

Spec == Init /\ [][Next]_vars

InitKeys ==
    /\ db = SeedDb
    /\ now = 0
    /\ dbUp = TRUE
    /\ cache = {}
    /\ last = NoCall
    /\ session \in SessionPairs
    /\ conns = 0
    /\ page = NoPage

NextKeys ==
    \/ CallHit
    \/ CallMiss
    \/ Tick
    \/ DbDown
    \/ DbRestore
    \/ Collect

SpecKeys == InitKeys /\ [][NextKeys]_vars

---------------------------------------------------------------------------
(* Specification SpecRender: one run of the script, top to bottom.  Each   *)
(* action is one query call made through st.cache_data together with the  *)
(* script lines that follow it up to the next call.  Between two calls a   *)
(* row can be inserted and a database that was down can come back.         *)

\* the trend granularity the selectbox shows for a range under two months
DefaultAggregation == "day"

\* the variables whose origin is kept: how the value was obtained, whether
\* it is the default of a failed connection, and the size of the database
\* the query ran on
Totals == {"absolute_metrics", "churn_kpi", "dormant_analysis", "churn_count"}

NoOrigin == [how |-> "unset", failed |-> FALSE, seen |-> -1]

\* mutant: the absolute metrics asked as of start_date
RenderArgsAbsoluteAtStart(fn, f) ==
    CASE fn = "fetch_absolute_metrics" -> RangeArgs(0, page.start_date)
      [] fn = "load_ffp_data" -> RangeArgs(0, 0)
      [] fn \in {"fetch_dormant_users_analysis", "fetch_dormant_users_trend"} ->
            Args(page.start_date, page.end_date, "-", "-",
                 page.dormant_period_days)
      [] fn \in {"fetch_feature_specific_metrics", "fetch_retention_metrics",
                 "fetch_trend_data"} ->
            Args(page.start_date, page.end_date, f, "-", 0)
      [] fn = "fetch_overview_trend" ->
            Args(page.start_date, page.end_date, "-", DefaultAggregation, 0)
      [] OTHER -> RangeArgs(page.start_date, page.end_date)

\* the arguments of a call of the script; f is the feature of the tab
RenderArgs(fn, f) ==
    CASE fn = "fetch_absolute_metrics" -> RangeArgs(0, page.end_date)
      [] fn = "load_ffp_data" -> RangeArgs(0, 0)
      [] fn \in {"fetch_dormant_users_analysis", "fetch_dormant_users_trend"} ->
            Args(page.start_date, page.end_date, "-", "-",
                 page.dormant_period_days)
      [] fn \in {"fetch_feature_specific_metrics", "fetch_retention_metrics",
                 "fetch_trend_data"} ->
            Args(page.start_date, page.end_date, f, "-", 0)
      [] fn = "fetch_overview_trend" ->
            Args(page.start_date, page.end_date, "-", DefaultAggregation, 0)
      [] OTHER -> RangeArgs(page.start_date, page.end_date)

\* an uncaught exception ends the run
Raise(error) == [page EXCEPT !.pc = "raised", !.error = error]

Noted(p, var, how, failed) ==
    IF var \notin Totals THEN p
    ELSE [p EXCEPT !.origin[var] =
              [how |-> how, failed |-> failed,
               seen |-> IF how = "ran" THEN DbSize(db) ELSE -1]]

\* One cache holds what every function of the script returned: frames, a
\* dict, a number.  An entry keeps its value under the name of its
\* function, so that entries of different functions differ before their
\* values are looked at.
Pickled(fn, v) == [x \in {fn} |-> v]

Unpickled(entry) ==
    IF entry.found THEN [entry EXCEPT !.value = @[entry.fn]] ELSE entry

\* the tab after that of feature f, or the FFP tab
AfterTab(f) ==
    IF TabIndex(f) < Len(FeatureTabs)
    THEN [page EXCEPT !.pc = "feature_metrics",
                      !.feature = FeatureTabs[TabIndex(f) + 1]]
    ELSE [page EXCEPT !.pc = "ffp"]

\* the script from the assignment of what the call at position "at"
\* returned up to the next call
Continue(at, v) ==
    CASE at = "comprehensive" ->
            \* line 1493
            [page EXCEPT !.comprehensive_df = v, !.pc = "absolute"]
      [] at = "absolute" ->
            \* line 1496, then the Overview tab down to its first call:
            \* under "if absolute_metrics" the cards of lines 1545-1596 are
            \* guarded by "not comprehensive_df.empty", line 1676 is not and
            \* indexes a frame without columns
            IF DOMAIN v = {}
            THEN [page EXCEPT !.absolute_metrics = v, !.pc = "insights"]
            ELSE IF page.comprehensive_df # << >>
            THEN [page EXCEPT !.absolute_metrics = v, !.pc = "churn_kpi"]
            ELSE [page EXCEPT !.absolute_metrics = v, !.pc = "raised",
                              !.error = "KeyError"]
      [] at = "churn_kpi" ->
            \* line 1597 and the cards down to line 1745
            [page EXCEPT !.churn_kpi = v, !.pc = "averages"]
      [] at = "overview_trend" -> [page EXCEPT !.pc = "retention"]
      [] at = "retention" -> [page EXCEPT !.pc = "combinations"]
      [] at = "combinations" -> [page EXCEPT !.pc = "insights"]
      [] at = "insights" ->
            \* lines 2206-2207, outside "if absolute_metrics"
            [page EXCEPT !.pc = "feature_metrics", !.feature = FeatureTabs[1]]
      [] at = "feature_metrics" ->
            [page EXCEPT !.feature_metrics = v, !.pc = "feature_retention"]
      [] at = "feature_retention" ->
            \* line 2236; the trend call of line 2410 is under
            \* "if not feature_metrics.empty"
            IF page.feature_metrics # << >>
            THEN [page EXCEPT !.pc = "feature_trend"]
            ELSE AfterTab(page.feature)
      [] at = "feature_trend" -> AfterTab(page.feature)
      [] at = "ffp" -> [page EXCEPT !.pc = "dormant"]
      [] at = "dormant" ->
            \* line 2622; the rest of the tab is under
            \* "if not dormant_analysis.empty"
            [page EXCEPT !.dormant_analysis = v,
                         !.pc = IF v # << >> THEN "churn" ELSE "done"]
      [] at = "churn" -> [page EXCEPT !.churn_count = v, !.pc = "dormant_trend"]
      [] at = "dormant_trend" -> [page EXCEPT !.pc = "done"]

\* var = fn(...): served from the cache when a fresh entry is there,
\* otherwise the body runs and what it returns is stored
RenderFetch(at, fn, f, var) ==
    /\ page.pc = at
    /\ LET a == RenderArgs(fn, f)
           found == Unpickled(Found(cache, fn, a))
       IN  IF Lookup(cache, fn, a, now) # {}
           THEN /\ last' = Served(fn, a, now, dbUp, found)
                /\ page' = Noted(Continue(at, found.value), var, "hit",
                                  found.failed)
                /\ UNCHANGED <<cache, dbUp, conns>>
           ELSE \E fault \in Faults(fn, dbUp), v \in QueryResults(fn, a, db) :
                    LET r == Body(fn, fault, v)
                    IN  /\ last' = Ran(fn, a, fault, now, dbUp, found, r)
                        /\ cache' = IF r.outcome = "returned"
                                     THEN Store(cache, fn, a,
                                                Pickled(fn, r.value), now,
                                                fault # "none")
                                     ELSE cache
                        /\ dbUp' = IF fault = "connect" THEN FALSE ELSE dbUp
                        /\ conns' = conns + LeftOpen(fn, fault)
                        /\ page' = IF r.outcome = "raised"
                                    THEN Raise(IF fault = "connect"
                                               THEN "OperationalError"
                                               ELSE "ProgrammingError")
                                    ELSE Noted(Continue(at, r.value), var, "ran",
                                               fault # "none")
    /\ UNCHANGED <<db, now, session>>

InitRender ==
    /\ db = SeedDb
    /\ now = 0
    /\ dbUp \in BOOLEAN
    /\ cache = {}
    /\ last = NoCall
    /\ session = {}
    /\ conns = 0
    /\ page \in {[pc |-> "comprehensive", start_date |-> s, end_date |-> e,
                   dormant_period_days |-> n, feature |-> FeatureTabs[1],
                   error |-> "none",
                   comprehensive_df |-> << >>, absolute_metrics |-> << >>,
                   churn_kpi |-> 0, feature_metrics |-> << >>,
                   dormant_analysis |-> << >>, churn_count |-> 0,
                   origin |-> [x \in Totals |-> NoOrigin]] :
                      s \in Dates, e \in Dates, n \in 1..MaxLookback}

\* line 1493
RenderComprehensive ==
    RenderFetch("comprehensive", "fetch_comprehensive_metrics", "-",
                "comprehensive_df")

\* line 1496
RenderAbsolute ==
    RenderFetch("absolute", "fetch_absolute_metrics", "-", "absolute_metrics")

\* line 1597
RenderChurnKpi ==
    RenderFetch("churn_kpi", "fetch_churn_count", "-", "churn_kpi")

\* lines 1750-1790: f"{comprehensive_df['avg_dau'][0]:,.0f}" and the same
\* for avg_wau and avg_mau.  A NULL average reaches the format as None,
\* which it rejects, or as NaN, which it prints, depending on how the
\* driver and pandas typed the column.
RenderAverages ==
    /\ page.pc = "averages"
    /\ \/ /\ \E c \in {"avg_dau", "avg_wau", "avg_mau"} :
                page.comprehensive_df[1][c].n = 0
          /\ page' = Raise("TypeError")
       \/ page' = [page EXCEPT !.pc = "overview_trend"]
    /\ UNCHANGED <<db, now, dbUp, cache, last, session, conns>>

\* line 1838
RenderOverviewTrend ==
    RenderFetch("overview_trend", "fetch_overview_trend", "-", "trend_df")

\* line 1911
RenderRetention ==
    RenderFetch("retention", "fetch_retention_metrics", "None",
                "overall_retention")

\* line 2137
RenderCombinations ==
    RenderFetch("combinations", "fetch_feature_combinations", "-",
                "feature_combinations_df")

\* line 2206
RenderInsights ==
    RenderFetch("insights", "fetch_retention_metrics", "None", "retention_df")

\* line 2235
RenderFeatureMetrics ==
    RenderFetch("feature_metrics", "fetch_feature_specific_metrics",
                page.feature, "feature_metrics")

\* line 2236
RenderFeatureRetention ==
    RenderFetch("feature_retention", "fetch_retention_metrics", page.feature,
                "feature_retention")

\* line 2410
RenderFeatureTrend ==
    RenderFetch("feature_trend", "fetch_trend_data", page.feature, "dau_df")

\* line 2495
RenderFfp == RenderFetch("ffp", "load_ffp_data", "-", "ffp_df")

\* line 2622
RenderDormant ==
    RenderFetch("dormant", "fetch_dormant_users_analysis", "-",
                "dormant_analysis")

\* line 2670
RenderChurn == RenderFetch("churn", "fetch_churn_count", "-", "churn_count")

\* line 2718
RenderDormantTrend ==
    RenderFetch("dormant_trend", "fetch_dormant_users_trend", "-",
                "dormant_trend")

Running == page.pc \notin {"done", "raised"}

\* a row inserted while the script runs
WriteDuringRender == Running /\ InsertEvent

\* the database coming back while the script runs
RestoreDuringRender == Running /\ DbRestore

NextRender ==
    \/ RenderComprehensive
    \/ RenderAbsolute
    \/ RenderChurnKpi
    \/ RenderAverages
    \/ RenderOverviewTrend
    \/ RenderRetention
    \/ RenderCombinations
    \/ RenderInsights
    \/ RenderFeatureMetrics
    \/ RenderFeatureRetention
    \/ RenderFeatureTrend
    \/ RenderFfp
    \/ RenderDormant
    \/ RenderChurn
    \/ RenderDormantTrend
    \/ WriteDuringRender
    \/ RestoreDuringRender

SpecRender == InitRender /\ [][NextRender]_vars

---------------------------------------------------------------------------
(* Claims about caching and connection failures                           *)

Age(call) == call.at - call.entry.stored_at

\* C1: a call to a ttl-cached function that finds an entry stored under
\* its own arguments less than 300 s ago returns the stored value and
\* issues no query, whatever happened to the database in between.
C1_FreshEntryServedWithoutQuery ==
    (HasTtl(last.fn) /\ last.entry.found /\ Age(last) < TTL) =>
        /\ last.hit
        /\ last.outcome = "returned"
        /\ last.value = last.entry.value
        /\ ~last.queried

\* a 299 s old entry served although the database now answers differently
C1_Witness ==
    /\ HasTtl(last.fn) /\ last.hit /\ Age(last) = TTL - 1
    /\ ~last.entry.failed
    /\ last.value \notin QueryResults(last.fn, last.args, db)

C2_NeverServedExpired ==
    (HasTtl(last.fn) /\ last.hit) => Age(last) < TTL

C2_ExpiredEntryRecomputed ==
    \A c \in session :
        LET old == Found(cache, c.fn, c.args)
        IN  ( /\ last' # last /\ last'.fn = c.fn /\ last'.args = c.args
              /\ HasTtl(c.fn) /\ old.found /\ now - old.stored_at >= TTL ) =>
                /\ ~last'.hit
                /\ last'.fault = "none" =>
                       /\ last'.queried
                       /\ last'.outcome = "returned"
                       /\ last'.value \in QueryResults(c.fn, c.args, db)
                /\ last'.outcome = "returned" =>
                       /\ Cardinality(Matching(cache', c.fn, c.args)) = 1
                       /\ Found(cache', c.fn, c.args).value = last'.value
                       /\ Found(cache', c.fn, c.args).stored_at = now

C2_ExpiryIsLazy ==
    /\ now' # now => cache' = cache
    /\ cache' # cache => (~last'.hit /\ last'.outcome = "returned")

\* C2: an entry of a ttl-cached function that is 300 s old or older is
\* never served; the call that finds it runs the query on the current
\* database and its result replaces the entry, stamped with the time of
\* the call; the passing of time alone never changes the cache.
C2_ExpiredEntryReplacedOnAccess ==
    /\ []C2_NeverServedExpired
    /\ [][C2_ExpiredEntryRecomputed]_vars
    /\ [][C2_ExpiryIsLazy]_vars

\* an expired entry replaced by a different, current result
C2_Witness ==
    /\ HasTtl(last.fn) /\ ~last.hit /\ last.fault = "none"
    /\ last.entry.found /\ Age(last) >= TTL
    /\ last.value # last.entry.value
    /\ Found(cache, last.fn, last.args).value = last.value
    /\ Found(cache, last.fn, last.args).stored_at = last.at

\* C3: once the database is reachable again, a call is not answered with
\* the outcome of an earlier call that ended in a connection failure.
C3_FailureOutcomeNotServedAgain ==
    ~(last.hit /\ last.up /\ last.entry.failed)

\* C4: no call of a fetch_* function ends in an exception.
C4_NoExceptionCrossesBoundary ==
    HasTtl(last.fn) => last.outcome # "raised"

\* C5: get_database_connection never raises; when its connect fails it
\* reports the error and returns None, and the query function then
\* returns its empty default without executing SQL.
C5_NoConnectionGivesDefault ==
    /\ \A f \in {"none", "probe", "connect", "sql"} :
            ~GetDatabaseConnection(f).raised
    /\ last.fault = "probe" =>
            /\ GetDatabaseConnection(last.fault).conn = "None"
            /\ last.outcome = "returned"
            /\ last.reported
            /\ ~last.queried
            /\ last.value =
                   CASE last.fn = "fetch_trend_data" -> <<<< >>, << >>, << >>>>
                     [] last.fn = "fetch_churn_count" -> 0
                     [] OTHER -> << >>

\* fetch_trend_data called while the database is down
C5_Witness ==
    /\ last.fn = "fetch_trend_data" /\ last.fault = "probe" /\ ~last.up
    /\ last.value = <<<< >>, << >>, << >>>>

C6_ServedFromOwnKey ==
    /\ last.hit => (last.entry.fn = last.fn /\ last.entry.args = last.args)
    /\ \A x \in cache, y \in cache :
           (x.fn = y.fn /\ x.args = y.args) => x = y
    /\ (last.outcome = "returned" /\ last.fn # "none") =>
           \E x \in cache : x.fn = last.fn /\ x.args = last.args

C6_OtherEntriesUntouched ==
    \A x \in cache :
        (last' # last /\ (x.fn # last'.fn \/ x.args # last'.args)) =>
            x \in cache'

\* C6: a call is only ever served the entry stored for its own function
\* and its own arguments; every returned call has an entry of its own,
\* and storing it leaves the entries of other calls as they were.
C6_KeyedByFunctionAndArguments ==
    /\ []C6_ServedFromOwnKey
    /\ [][C6_OtherEntriesUntouched]_vars

\* two live entries of one function that differ in one argument hold
\* different values, and the call is served its own
C6_Witness ==
    /\ last.hit
    /\ \E x \in cache, y \in cache :
           /\ x.fn = y.fn /\ x.fn = last.fn
           /\ x.args = last.args /\ y.args # last.args
           /\ ~x.failed /\ ~y.failed
           /\ x.value # y.value
           /\ last.value = x.value

---------------------------------------------------------------------------
(* Claims about fetch_comprehensive_metrics, under SpecComprehensive *)

ComprehensiveReturned ==
    /\ last.fn = "fetch_comprehensive_metrics"
    /\ last.outcome = "returned"
    /\ last.queried

ComprehensiveRow == last.value[1]

WindowEvents ==
    {ev \in db.events :
        last.args.start_date <= ev.activity_date
        /\ ev.activity_date <= last.args.end_date}

\* the users total_active_users counts: rows of users, not restricted,
\* with an activity event in the window
CountedActive ==
    {r \in db.users : ~r.restricted /\ \E ev \in WindowEvents : ev.user_id = r.id}

WindowDays(u) == {ev.activity_date : ev \in {x \in WindowEvents : x.user_id = u}}

EarliestEver(u) ==
    Min({ev.activity_date : ev \in {x \in db.events : x.user_id = u}})

\* C7: the row fetch_comprehensive_metrics returns has total_active_users
\* at least each of spending_users, savings_users, investment_users and
\* lady_ai_users.
C7_TotalActiveAtLeastEachFeature ==
    ComprehensiveReturned =>
        /\ ComprehensiveRow.total_active_users >= ComprehensiveRow.spending_users
        /\ ComprehensiveRow.total_active_users >= ComprehensiveRow.savings_users
        /\ ComprehensiveRow.total_active_users >= ComprehensiveRow.investment_users
        /\ ComprehensiveRow.total_active_users >= ComprehensiveRow.lady_ai_users

\* C8: the row fetch_comprehensive_metrics returns has
\* single_feature_users + multiple_feature_users = total_active_users.
C8_SinglePlusMultipleIsTotalActive ==
    ComprehensiveReturned =>
        ComprehensiveRow.single_feature_users
            + ComprehensiveRow.multiple_feature_users
        = ComprehensiveRow.total_active_users

\* C9: first_time_users counts exactly the users whose earliest activity
\* over all history lies in [start_date, end_date] and is on or after their
\* signup date.
C9_FirstTimeIffEarliestInWindowAndAfterSignup ==
    ComprehensiveReturned =>
        ComprehensiveRow.first_time_users =
            Cardinality({r \in {x \in db.users : ~x.restricted} :
                /\ \E ev \in db.events : ev.user_id = r.id
                /\ last.args.start_date <= EarliestEver(r.id)
                /\ EarliestEver(r.id) <= last.args.end_date
                /\ EarliestEver(r.id) >= r.signup_date})

\* C10: every counted active user is one-time when it has exactly one
\* distinct activity date in the window and recurring when it has two or
\* more; the two buckets are disjoint and add up to total_active_users.
C10_OneTimeRecurringByDistinctDays ==
    ComprehensiveReturned =>
        /\ ComprehensiveRow.one_time_usage_users =
              Cardinality({r \in CountedActive :
                  Cardinality(WindowDays(r.id)) = 1})
        /\ ComprehensiveRow.recurring_users =
              Cardinality({r \in CountedActive :
                  Cardinality(WindowDays(r.id)) >= 2})
        /\ ComprehensiveRow.one_time_usage_users
              + ComprehensiveRow.recurring_users
           = ComprehensiveRow.total_active_users

\* a counted user with two features on one day (one-time) or with two
\* distinct days (recurring) has been classified
C10_Witness ==
    /\ ComprehensiveReturned
    /\ ComprehensiveRow.recurring_users >= 1
    /\ ComprehensiveRow.total_active_users >= 1

---------------------------------------------------------------------------
(* Claims about fetch_retention_metrics *)

Returned(fn) ==
    /\ last.fn = fn
    /\ last.outcome = "returned"
    /\ last.queried

RetentionRow == last.value[1]

\* the cohort as the specification describes it
Cohort ==
    {r \in db.users :
        /\ ~r.restricted
        /\ last.args.start_date <= r.signup_date
        /\ r.signup_date <= last.args.end_date}

\* cohort users with a qualifying event dated signup + lo .. signup + hi
CohortRetained(lo, hi) ==
    {r \in Cohort :
        \E ev \in db.events :
            /\ ev.user_id = r.id
            /\ last.args.feature \in {"None", ev.feature}
            /\ r.signup_date + lo <= ev.activity_date
            /\ ev.activity_date <= r.signup_date + hi}

RateOf(retained) ==
    [num |-> Cardinality(retained), den |-> Cardinality(Cohort)]

\* C11: each retention rate is the number of cohort users with a
\* qualifying event in the sub-window after their signup (day 1, days
\* 1-7, days 1-30) over the size of the cohort.
C11_RetentionCountsEventsAfterSignup ==
    Returned("fetch_retention_metrics") =>
        /\ RetentionRow.day1_retention = RateOf(CohortRetained(1, 1))
        /\ RetentionRow.week1_retention = RateOf(CohortRetained(1, 7))
        /\ RetentionRow.month1_retention = RateOf(CohortRetained(1, 30))

RateInUnitOrNull(r) ==
    /\ r.den = 0 <=> Cohort = {}
    /\ 0 <= r.num
    /\ r.num <= r.den

\* C12: each retention rate is null exactly when the cohort is empty and
\* otherwise lies between 0 and 1; the call returns for an empty cohort.
C12_RetentionRateInUnitIntervalOrNull ==
    (last.fn = "fetch_retention_metrics" /\ last.fault = "none") =>
        /\ last.outcome = "returned"
        /\ RateInUnitOrNull(RetentionRow.day1_retention)
        /\ RateInUnitOrNull(RetentionRow.week1_retention)
        /\ RateInUnitOrNull(RetentionRow.month1_retention)

\* a cohort all of whose members came back the next day: rate 1
C12_Witness ==
    /\ Returned("fetch_retention_metrics")
    /\ Cohort # {}
    /\ RetentionRow.day1_retention.num = RetentionRow.day1_retention.den
    /\ RetentionRow.day1_retention.den >= 1

---------------------------------------------------------------------------
(* Claims about fetch_trend_data *)

\* users with a qualifying event on the day, under the call's feature filter
ActiveOn(day) ==
    {ev.user_id : ev \in {x \in db.events :
        x.activity_date = day /\ last.args.feature \in {"None", x.feature}}}

\* C14: the daily series has a row for every calendar day of the range,
\* and a day without qualifying activity has dau = 0.
C14_DailySeriesHasEveryDay ==
    Returned("fetch_trend_data") =>
        LET dau_df == last.value[1]
        IN  \A day \in last.args.start_date..last.args.end_date :
                \E i \in 1..Len(dau_df) :
                    /\ dau_df[i].activity_date = day
                    /\ dau_df[i].dau = Cardinality(ActiveOn(day))

---------------------------------------------------------------------------
(* Claims about fetch_overview_trend *)

TrendRows == last.value

\* the period (day, ISO week or calendar month) a date falls in, named by
\* its first day
PeriodOf(x) == DateTrunc(last.args.aggregation, x)

RangePeriods ==
    {PeriodOf(x) : x \in last.args.start_date..last.args.end_date}

\* events and signups of the requested range that fall in period p
EventsIn(p) ==
    {ev \in db.events :
        /\ last.args.start_date <= ev.activity_date
        /\ ev.activity_date <= last.args.end_date
        /\ PeriodOf(ev.activity_date) = p}

SignupsIn(p) ==
    {r \in db.users :
        /\ ~r.restricted
        /\ last.args.start_date <= r.signup_date
        /\ r.signup_date <= last.args.end_date
        /\ PeriodOf(r.signup_date) = p}

FeatureUsersIn(p, f) ==
    Cardinality({ev.user_id : ev \in {x \in EventsIn(p) : x.feature = f}})

\* C13: the series has exactly one row per period of the requested
\* granularity between start and end, and the row of a period carries
\* the period's signups, distinct active users and per-feature users.
C13_OneRowPerPeriodWithItsCounts ==
    Returned("fetch_overview_trend") =>
        /\ Len(TrendRows) = Cardinality(RangePeriods)
        /\ \A p \in RangePeriods :
              \E i \in 1..Len(TrendRows) :
                  /\ PeriodOf(TrendRows[i].activity_date) = p
                  /\ TrendRows[i].signups = Cardinality(SignupsIn(p))
                  /\ TrendRows[i].active_users =
                         Cardinality({ev.user_id : ev \in EventsIn(p)})
                  /\ TrendRows[i].lady_users = FeatureUsersIn(p, "lady_ai")
                  /\ TrendRows[i].spending_users = FeatureUsersIn(p, "spending")
                  /\ TrendRows[i].savings_users = FeatureUsersIn(p, "savings")
                  /\ TrendRows[i].investment_users =
                         FeatureUsersIn(p, "investment")

\* signed up / active in a period up to that of dt, no later than end_date
SignedUpBy(dt) ==
    {r \in db.users :
        /\ ~r.restricted
        /\ r.signup_date <= last.args.end_date
        /\ PeriodOf(r.signup_date) <= PeriodOf(dt)}

ActiveBy(dt) ==
    {ev.user_id : ev \in {x \in db.events :
        /\ x.activity_date <= last.args.end_date
        /\ PeriodOf(x.activity_date) <= PeriodOf(dt)}}

\* C20: in every row the absolute columns are the cumulative counts since
\* inception up to the row's period, so they never decrease along the
\* series.
C20_AbsoluteColumnsAreCumulative ==
    Returned("fetch_overview_trend") =>
        /\ \A i \in 1..Len(TrendRows) :
              /\ TrendRows[i].absolute_signups =
                     Cardinality(SignedUpBy(TrendRows[i].activity_date))
              /\ TrendRows[i].absolute_active_users =
                     Cardinality(ActiveBy(TrendRows[i].activity_date))
        /\ \A i \in 1..Len(TrendRows), j \in 1..Len(TrendRows) :
              i < j =>
                  /\ TrendRows[i].absolute_signups
                         <= TrendRows[j].absolute_signups
                  /\ TrendRows[i].absolute_active_users
                         <= TrendRows[j].absolute_active_users

---------------------------------------------------------------------------
(* Claims about fetch_dormant_users_analysis *)

DormantRow == last.value[1]

FeatureEvents(f) == {ev \in db.events : f \in {"All", ev.feature}}

\* users with an event of f dated in [start - N, start)
LookbackUsers(f) ==
    {ev.user_id : ev \in {x \in FeatureEvents(f) :
        /\ last.args.start_date - last.args.dormant_period_days
               <= x.activity_date
        /\ x.activity_date < last.args.start_date}}

\* users with an event of f dated in [start, end]
CurrentUsers(f) ==
    {ev.user_id : ev \in {x \in FeatureEvents(f) :
        /\ last.args.start_date <= x.activity_date
        /\ x.activity_date <= last.args.end_date}}

DormantUsers(f) == Cardinality(LookbackUsers(f) \ CurrentUsers(f))

\* C15: for start_date <= end_date, the dormant users are those with an
\* event in [start - N, start) and none in [start, end], overall and per
\* feature, each counted once.
C15_DormantIffLookbackAndNotCurrent ==
    ( /\ Returned("fetch_dormant_users_analysis")
      /\ last.args.start_date <= last.args.end_date ) =>
        /\ DormantRow.overall_dormant_users = DormantUsers("All")
        /\ DormantRow.spending_dormant_users = DormantUsers("spending")
        /\ DormantRow.savings_dormant_users = DormantUsers("savings")
        /\ DormantRow.investment_dormant_users = DormantUsers("investment")
        /\ DormantRow.lady_ai_dormant_users = DormantUsers("lady_ai")

\* a user dormant for spending who is still active through another feature
C15_Witness ==
    /\ Returned("fetch_dormant_users_analysis")
    /\ last.args.start_date <= last.args.end_date
    /\ DormantRow.spending_dormant_users = 1
    /\ DormantRow.overall_dormant_users = 0
    /\ DormantRow.total_current_users >= 1

\* C16: total_historical_users counts the users with an event in
\* [start - N, start), the N days that end just before the start date.
C16_HistoricalUsersExcludeStartDate ==
    Returned("fetch_dormant_users_analysis") =>
        DormantRow.total_historical_users = Cardinality(LookbackUsers("All"))

---------------------------------------------------------------------------
(* Claims about fetch_churn_count *)

\* users with an event on or before end_date and none in [start, end]
Churned ==
    {ev.user_id : ev \in {x \in db.events :
        x.activity_date <= last.args.end_date}} \ CurrentUsers("All")

---------------------------------------------------------------------------
(* Claims about fetch_feature_combinations *)

ComboRows == last.value

Alphabetical == <<"investment", "lady_ai", "savings", "spending">>

\* the features a user touched in the window
Touched(u) ==
    {ev.feature : ev \in {x \in db.events :
        /\ x.user_id = u
        /\ last.args.start_date <= x.activity_date
        /\ x.activity_date <= last.args.end_date}}

MultiFeatureUsers ==
    {u \in {ev.user_id : ev \in db.events} : Cardinality(Touched(u)) >= 2}

\* the label of a user: the touched tags, each once, in alphabetical
\* order (the sequence that ' + ' joins)
LabelOf(u) ==
    LET InLabel(f) == f \in Touched(u)
    IN  SelectSeq(Alphabetical, InLabel)

LabelUsers(label) == {u \in MultiFeatureUsers : LabelOf(u) = label}

\* one row per label of a multi-feature user, with its user count, in
\* descending order of user count
CombinationRowsAsSpecified ==
    /\ {ComboRows[i].feature_combination : i \in 1..Len(ComboRows)}
           = {LabelOf(u) : u \in MultiFeatureUsers}
    /\ \A i \in 1..Len(ComboRows), j \in 1..Len(ComboRows) :
           /\ (ComboRows[i].feature_combination
                   = ComboRows[j].feature_combination) => i = j
           /\ i < j => ComboRows[i].user_count >= ComboRows[j].user_count
    /\ \A i \in 1..Len(ComboRows) :
           ComboRows[i].user_count =
               Cardinality(LabelUsers(ComboRows[i].feature_combination))

\* C18 as stated: rows as above, and percentage is exactly
\* user_count * 100 / (number of multi-feature users); percentages are in
\* hundredths of a percent.
C18_PercentageIsExactShare ==
    Returned("fetch_feature_combinations") =>
        /\ CombinationRowsAsSpecified
        /\ \A i \in 1..Len(ComboRows) :
               ComboRows[i].percentage * Cardinality(MultiFeatureUsers)
                   = ComboRows[i].user_count * 10000

\* C18, amended: rows as above, and percentage is the share
\* user_count * 100 / (number of multi-feature users) rounded to two
\* decimals.
C18_PercentageIsShareRoundedToTwoDecimals ==
    Returned("fetch_feature_combinations") =>
        /\ CombinationRowsAsSpecified
        /\ \A i \in 1..Len(ComboRows) :
               LET off == ComboRows[i].percentage
                              * Cardinality(MultiFeatureUsers)
                          - ComboRows[i].user_count * 10000
               IN  /\ 2 * off <= Cardinality(MultiFeatureUsers)
                   /\ -2 * off <= Cardinality(MultiFeatureUsers)

\* two of three multi-feature users share a label: 66.67 and 33.33
C18_Witness ==
    /\ Returned("fetch_feature_combinations")
    /\ Len(ComboRows) = 2
    /\ ComboRows[1].user_count = 2 /\ ComboRows[1].percentage = 6667
    /\ ComboRows[2].user_count = 1 /\ ComboRows[2].percentage = 3333

---------------------------------------------------------------------------
(* Claims about the averages of fetch_comprehensive_metrics *)

\* the mean of the distinct-user counts of the periods that have activity:
\* the (period, user) pairs of the window over the periods of the window
MeanOverActivePeriods(periodOf(_)) ==
    [sum |-> Cardinality({<<periodOf(ev.activity_date), ev.user_id>> :
                             ev \in WindowEvents}),
     n |-> Cardinality({periodOf(ev.activity_date) : ev \in WindowEvents})]

SameDay(x) == x

\* C19: avg_dau, avg_wau and avg_mau are the means of the distinct-user
\* counts over the days, ISO weeks and months of the window that have
\* activity; periods without activity count neither in the sum nor in
\* the denominator, and the average is null when there is no activity.
C19_AveragesSkipInactivePeriods ==
    ComprehensiveReturned =>
        /\ ComprehensiveRow.avg_dau = MeanOverActivePeriods(SameDay)
        /\ ComprehensiveRow.avg_wau = MeanOverActivePeriods(DateTruncWeek)
        /\ ComprehensiveRow.avg_mau = MeanOverActivePeriods(DateTruncMonth)
        /\ WindowEvents = {} <=> ComprehensiveRow.avg_dau.n = 0

\* a two-day window with two users on one day and nobody on the other:
\* the average is 2 / 1
C19_Witness ==
    /\ ComprehensiveReturned
    /\ last.args.start_date < last.args.end_date
    /\ ComprehensiveRow.avg_dau = [sum |-> 2, n |-> 1]


---------------------------------------------------------------------------
(* Claims about database connections *)

\* C26: every connection opened during a query-function call, the probe of
\* get_database_connection included, is closed by the time the call
\* returns, so no call leaves a connection open behind it.
C26_NoConnectionLeftOpenAfterCall ==
    conns = 0

---------------------------------------------------------------------------
(* Claims about the activation rate *)

\* C22: whenever total_signups > 0, the activation rate
\* total_active_users / total_signups * 100 computed from the row of
\* fetch_comprehensive_metrics lies in [0, 100], that is,
\* total_active_users <= total_signups.
C22_ActivationRateAtMostHundred ==
    (ComprehensiveReturned /\ ComprehensiveRow.total_signups > 0) =>
        /\ ComprehensiveRow.total_active_users >= 0
        /\ ComprehensiveRow.total_active_users <= ComprehensiveRow.total_signups

---------------------------------------------------------------------------
(* Claims about the per-feature dormant counts *)

FeatureDormantCount(f) ==
    CASE f = "spending" -> DormantRow.spending_dormant_users
      [] f = "savings" -> DormantRow.savings_dormant_users
      [] f = "investment" -> DormantRow.investment_dormant_users
      [] f = "lady_ai" -> DormantRow.lady_ai_dormant_users

\* C27: each per-feature dormant count returned by
\* fetch_dormant_users_analysis is at most overall_dormant_users, so the
\* share shown as '% of total dormant users' never exceeds 100.
C27_FeatureDormantAtMostOverall ==
    Returned("fetch_dormant_users_analysis") =>
        \A f \in Features :
            FeatureDormantCount(f) <= DormantRow.overall_dormant_users

---------------------------------------------------------------------------
(* Claims about the order of the retention rates *)

\* a / b <= c / d for rates over non-empty cohorts
RateAtMost(x, y) == x.num * y.den <= y.num * x.den

\* C29: with a non-empty cohort, fetch_retention_metrics returns
\* day1_retention <= week1_retention <= month1_retention.
C29_RetentionRatesAscend ==
    (Returned("fetch_retention_metrics") /\ RetentionRow.total_signups > 0) =>
        /\ RateAtMost(RetentionRow.day1_retention, RetentionRow.week1_retention)
        /\ RateAtMost(RetentionRow.week1_retention, RetentionRow.month1_retention)

\* a cohort of two, one user back within the week and the other only
\* within the month: the three rates differ
C29_Witness ==
    /\ Returned("fetch_retention_metrics")
    /\ RetentionRow.total_signups = 2
    /\ RetentionRow.day1_retention.num < RetentionRow.week1_retention.num
    /\ RetentionRow.week1_retention.num < RetentionRow.month1_retention.num

---------------------------------------------------------------------------
(* Claims about generate_insights, under SpecInsights *)

InsightsShown == page.pc \in {"shown", "shown_again"}

Titles(cards) == [i \in 1..Len(cards) |-> cards[i].title]

SnapshotSignups ==
    IF page.metrics_df # << >> /\ "total_signups" \in DOMAIN page.metrics_df[1]
    THEN page.metrics_df[1].total_signups
    ELSE 0

SnapshotActive ==
    IF page.metrics_df # << >>
        /\ "total_active_users" \in DOMAIN page.metrics_df[1]
    THEN page.metrics_df[1].total_active_users
    ELSE 0

\* a retention rate as a percentage below / above a threshold; a null
\* rate counts as 0 percent
PercentBelow(rate, k) ==
    IF rate.den = 0 THEN 0 < k ELSE rate.num * 100 < k * rate.den

PercentAbove(rate, k) ==
    IF rate.den = 0 THEN 0 > k ELSE rate.num * 100 > k * rate.den

ActivationRuleTitle ==
    IF SnapshotSignups > 0 /\ SnapshotActive * 100 < 30 * SnapshotSignups
    THEN <<"Low Activation Rate Alert">>
    ELSE IF SnapshotSignups > 0 /\ SnapshotActive * 100 > 70 * SnapshotSignups
    THEN <<"Excellent Activation Rate">>
    ELSE << >>

Day1RuleTitle ==
    IF page.retention_df # << >>
        /\ PercentBelow(page.retention_df[1].day1_retention, 20)
    THEN <<"Day 1 Retention Needs Attention">>
    ELSE << >>

Week1RuleTitle ==
    IF page.retention_df # << >>
        /\ PercentAbove(page.retention_df[1].week1_retention, 50)
    THEN <<"Strong Week 1 Retention">>
    ELSE << >>

\* C23: generate_insights returns exactly the rules whose condition holds,
\* in the order activation, day-1 retention, week-1 retention: the
\* activation rule only with total_signups > 0, as 'Low Activation Rate
\* Alert' iff the rate is below 30 or 'Excellent Activation Rate' iff it is
\* above 70, never both; the day-1 rule iff the retention table is not
\* empty and day-1 retention is below 20 percent; the week-1 rule iff
\* week-1 retention is above 50 percent; the retention rules do not depend
\* on the activation rule, and a second call with the same inputs returns
\* the same list.
C23_InsightsAreTheRulesThatHoldInOrder ==
    /\ InsightsShown =>
        /\ Titles(page.insights) =
               ActivationRuleTitle \o Day1RuleTitle \o Week1RuleTitle
        /\ ~ \E i, j \in 1..Len(page.insights) :
               /\ page.insights[i].title = "Low Activation Rate Alert"
               /\ page.insights[j].title = "Excellent Activation Rate"
    /\ page.pc = "shown_again" => page.again = page.insights

\* all three rules fire: 2 of 10 signups active, 1 of 10 back on day 1,
\* 6 of 10 back within the week
C23_Witness ==
    /\ page.pc = "shown_again"
    /\ Titles(page.insights) =
           <<"Low Activation Rate Alert", "Day 1 Retention Needs Attention",
             "Strong Week 1 Retention">>
    /\ page.again = page.insights

---------------------------------------------------------------------------
(* Claims relating the results of several functions on one database *)

\* C28: on one database state and with start_date <= end_date,
\* fetch_churn_count(start, end) plus total_current_users of
\* fetch_dormant_users_analysis(start, end, N) equals
\* absolute_total_active_users of fetch_absolute_metrics(end), for every N.
C28_ChurnedPlusCurrentIsEverActive ==
    (page.pc = "done" /\ "churn_count" \in DOMAIN page
        /\ page.start_date <= page.end_date) =>
            page.churn_count + page.dormant_analysis[1].total_current_users
                = page.absolute_metrics.absolute_total_active_users

\* one user churned and another active in the window
C28_Witness ==
    /\ page.pc = "done" /\ "churn_count" \in DOMAIN page
    /\ page.start_date <= page.end_date
    /\ page.churn_count = 1
    /\ page.dormant_analysis[1].total_current_users = 1
    /\ page.absolute_metrics.absolute_total_active_users = 2

CombinationCounts ==
    [i \in 1..Len(page.feature_combinations_df) |->
        page.feature_combinations_df[i].user_count]

DistinctTags(label) == {label[i] : i \in 1..Len(label)}

\* C30: on one database state, the user_count values of
\* fetch_feature_combinations(start, end) sum to multiple_feature_users of
\* fetch_comprehensive_metrics(start, end), and every label names at least
\* two distinct feature tags.
C30_CombinationCountsSumToMultiFeatureUsers ==
    (page.pc = "done" /\ "feature_combinations_df" \in DOMAIN page) =>
        /\ SumFn(CombinationCounts) =
               page.comprehensive_df[1].multiple_feature_users
        /\ \A i \in 1..Len(page.feature_combinations_df) :
               LET label == page.feature_combinations_df[i].feature_combination
               IN  /\ DistinctTags(label) \subseteq Features
                   /\ Cardinality(DistinctTags(label)) >= 2

\* three multi-feature users under two different labels
C30_Witness ==
    /\ page.pc = "done" /\ "feature_combinations_df" \in DOMAIN page
    /\ Len(page.feature_combinations_df) = 2
    /\ page.feature_combinations_df[1].user_count = 2
    /\ page.feature_combinations_df[2].user_count = 1
    /\ page.comprehensive_df[1].multiple_feature_users = 3

---------------------------------------------------------------------------
(* Claims about the derived ratios *)

ActivationTitles == {"Low Activation Rate Alert", "Excellent Activation Rate"}

\* a ratio that was computed without a division error and is 0 when its
\* denominator is 0 or null
ZeroSafe(ratio, denominator_is_zero) ==
    /\ ~ratio.error
    /\ denominator_is_zero => ratio.hundredths = 0

\* C21: every ratio the script derives from a fetched snapshot
\* (conversion_rate, feature_adoption, the four penetration percentages,
\* stickiness_ratio, the dormancy percentage, reactivation_rate, the
\* per-feature dormant shares) is computed without a division error and is
\* 0 when its denominator is 0 or null, and generate_insights adds no
\* activation insight when total_signups is 0.
C21_RatiosAreZeroOnZeroDenominator ==
    /\ page.comprehensive_df # << >> =>
          /\ ZeroSafe(page.conversion_rate,
                      page.comprehensive_df[1].total_signups = 0)
          /\ ZeroSafe(page.feature_adoption,
                      page.comprehensive_df[1].total_active_users = 0)
          /\ \A f \in Features :
                ZeroSafe(page.penetration[f],
                         page.comprehensive_df[1].total_active_users = 0)
    /\ (page.retention_df # << >>
            /\ page.comprehensive_df[1].total_signups = 0) =>
          \A i \in DOMAIN page.insights :
              page.insights[i].title \notin ActivationTitles
    /\ page.feature_metrics # << >> =>
          ZeroSafe(page.stickiness_ratio,
                   \/ page.feature_metrics[1].avg_mau.n = 0
                   \/ page.feature_metrics[1].avg_mau.sum = 0)
    /\ page.dormant_analysis # << >> =>
          /\ ZeroSafe(page.dormant_percentage,
                      page.dormant_analysis[1].total_historical_users = 0)
          /\ ZeroSafe(page.reactivation_rate,
                      page.dormant_analysis[1].total_historical_users = 0)
          /\ \A f \in Features :
                ZeroSafe(page.dormant_pct[f],
                         page.dormant_analysis[1].overall_dormant_users = 0)

\* a finished run with no signups in the range, a null avg_mau on the last
\* feature tab and nobody dormant, while users were active and the
\* historical period was not empty
C21_Witness ==
    /\ page.pc = "done"
    /\ page.comprehensive_df[1].total_signups = 0
    /\ page.comprehensive_df[1].total_active_users > 0
    /\ page.feature_metrics[1].avg_mau.n = 0
    /\ page.dormant_analysis[1].overall_dormant_users = 0
    /\ page.dormant_analysis[1].total_historical_users > 0
    /\ page.conversion_rate = Zero
    /\ page.stickiness_ratio = Zero
    /\ page.reactivation_rate.hundredths > 0

---------------------------------------------------------------------------
(* Claims about one run of the script *)

\* C25: the Overview tab reads columns of the comprehensive snapshot only
\* when the snapshot is not empty, so a run whose
\* fetch_comprehensive_metrics gave the empty frame of a failed connection
\* never ends in the KeyError of indexing a frame without columns,
\* whatever fetch_absolute_metrics returned in the same run.
C25_EmptySnapshotNeverRaises ==
    (page.pc # "comprehensive" /\ page.comprehensive_df = << >>) =>
        page.error # "KeyError"

\* the totals a finished run shows come from queries that all ran, on a
\* connection that worked
TotalsQueried ==
    /\ page.pc = "done"
    /\ page.start_date <= page.end_date
    /\ \A x \in {"absolute_metrics", "churn_kpi", "dormant_analysis"} :
          page.origin[x].how = "ran" /\ ~page.origin[x].failed

\* the three queries saw the same database
SameSnapshot ==
    /\ page.origin["absolute_metrics"].seen = page.origin["churn_kpi"].seen
    /\ page.origin["churn_kpi"].seen = page.origin["dormant_analysis"].seen

TotalsAgree ==
    page.churn_count + page.dormant_analysis[1].total_current_users
        = page.absolute_metrics.absolute_total_active_users

\* C24: the queries of one run are made one after the other and share no
\* snapshot.  The totals the run shows agree (churn_count plus
\* total_current_users is absolute_total_active_users) when the queries
\* behind them saw the same database; nothing makes them agree otherwise:
\* a row written between two of the queries, with churn_count served from
\* the entry that the Overview tab's call stored earlier, shows totals of
\* two database states.
C24_TotalsAgreeOnlyOnOneSnapshot ==
    (TotalsQueried /\ SameSnapshot) => TotalsAgree

\* a finished run, every query answered by a working connection, a row
\* written between the churn query of the Overview tab and the dormancy
\* query, churn_count taken from the cache: the totals do not add up
C24_Witness ==
    /\ TotalsQueried
    /\ page.origin["absolute_metrics"].seen = page.origin["churn_kpi"].seen
    /\ page.origin["churn_kpi"].seen < page.origin["dormant_analysis"].seen
    /\ page.origin["churn_count"].how = "hit"
    /\ page.churn_count = page.churn_kpi
    /\ ~TotalsAgree

===========================================================================
